---- MODULE Spec2Model ----
(***************************************************************************)
(* A model of the Foster 2D engine core: the batch renderer (Graphics),    *)
(* and the Physics mover with its Collider queries.                        *)
(***************************************************************************)
EXTENDS Integers, Sequences, FiniteSets, TLC

\* JavaScript null / undefined
Null == "null"

(***************************************************************************)
(* Bounds of the model                                                     *)
(***************************************************************************)
\* most vertices left queued in the batch by an operation
MaxVerts == 6
\* most draw calls in one frame (Graphics.drawCalls between two reset())
MaxDraws == 2
\* most runs of one (shader, blendmode) pair pushed in one batch
MaxRuns == 4
\* amounts, speeds and remainders are counted in Scale-ths of a unit
Scale == 2
\* the entity stays within MaxPos units of the point (1, 1)
MaxPos == 1
\* the largest amount of one move, in Scale-ths of a unit
MaxAmount == 3
\* the largest speed, in units per second
MaxSpeed == 3
\* the probing Hitbox stays within MaxCoord units of the origin on each axis
MaxCoord == 1
\* the largest width and height of the probing Hitbox
MaxSize == 2
\* the width and the height of a tile of the Hitgrid
TileSize == 2
\* the calls of one sequence that are counted
MaxCalls == 2

(***************************************************************************)
(* Graphics: shaders, uniforms, blend modes, render targets                *)
(***************************************************************************)
\* Shaders.texture and Shaders.primitive
ShaderNames == {"texture", "primitive"}

UniformNames == {"matrix", "texture"}

\* the uniforms a Program was constructed with that a game assigns while it
\* draws: the sampler of the texture program, the matrix of the primitive one
UniformsOf(s) == IF s = "texture" THEN {"texture"} ELSE {"matrix"}

\* Program.sampler2d: the first sampler2D uniform, null when there is none
Sampler2d(s) == IF "texture" \in UniformsOf(s) THEN "texture" ELSE Null

\* BlendModes.normal, BlendModes.add
BlendModeNames == {"normal", "add"}

\* null is the screen canvas; "buffer" is Graphics.buffer
RenderTargets == {Null, "buffer"}

\* values a game assigns to a uniform (texture handles, matrices)
UniformValues == {"v1"}

\* the textures a game draws (their webGLTexture handles)
Textures == {"v1", "v2"}

VARIABLES graphics, gfxLast, batch

gfxVars == <<graphics, gfxLast, batch>>

VARIABLES entity, physics, colliders, physLast, carry

physVars == <<entity, physics, colliders, physLast, carry>>

\* the overlap-test registry, the colliders a query runs over, and the last
\* registry or query call
VARIABLES overlaptest, shapes, colLast

colVars == <<overlaptest, shapes, colLast>>

\* the entities, their components and the scene's tag index, and the last
\* call made on them
VARIABLES world, sceneLast

sceneVars == <<world, sceneLast>>

\* an ObjectList, the each() calls in progress on it, what the traversal in
\* progress has visited, and the last call made on the list
VARIABLES list, frames, trace, listLast

listVars == <<list, frames, trace, listLast>>

\* Scene: the entity list of a scene, the flags of its entities and the
\* position of Scene.update; what an observer of the hooks has counted; the
\* last call
VARIABLES stage, watch, lifeLast

lifeVars == <<stage, watch, lifeLast>>

\* Matrix: a matrix and the last call made on it
VARIABLES matrix, matLast

matVars == <<matrix, matLast>>

\* Rectangle: the rectangle cropRect is called on (clip), the rectangle it is
\* given,
\* and the last call
VARIABLES clip, rect, rectLast

rectVars == <<clip, rect, rectLast>>

\* Renderer: the groups of the entities of a scene, the mask of its renderer
\* and the entities the last pass rendered; the last call
VARIABLES groups, groupLast

groupVars == <<groups, groupLast>>

\* Engine: the instance with the position of its step, what an observer of
\* its calls has counted, and the last action
VARIABLES engine, engineWatch, engineLast

engineVars == <<engine, engineWatch, engineLast>>

\* what the renderer and the mover leave alone
libVars == <<colVars, sceneVars, listVars, lifeVars, matVars, rectVars, groupVars,
            engineVars>>

vars == <<graphics, gfxLast, batch, entity, physics, colliders, physLast, carry,
          overlaptest, shapes, colLast, world, sceneLast,
          list, frames, trace, listLast, stage, watch, lifeLast, matrix, matLast,
          clip, rect, rectLast, groups, groupLast, engine, engineWatch, engineLast>>

\* Graphics constructor, Shaders.init (every Program starts dirty)
GraphicsInit ==
    [ vertices         |-> <<>>,
      currentTarget    |-> Null,
      currentShader    |-> Null,
      nextShader       |-> Null,
      currentBlendmode |-> "normal",
      nextBlendmode    |-> Null,
      drawCalls        |-> 0,
      shaderDirty      |-> [s \in ShaderNames |-> TRUE],
      uniformValue     |-> [s \in ShaderNames |-> [u \in UniformNames |-> Null]],
      uniformDirty     |-> [s \in ShaderNames |-> [u \in UniformNames |-> FALSE]],
      \* the WebGL context state
      glProgram        |-> Null,
      glBlend          |-> "normal",
      glFramebuffer    |-> Null,
      glUniforms       |-> [s \in ShaderNames |-> [u \in UniformNames |-> Null]],
      \* observation: the draw calls issued by the running operation and
      \* whether it raised
      draws            |-> <<>>,
      threw            |-> FALSE ]

\* an operation raises: nothing after the throw runs
Throw(g) == [g EXCEPT !.threw = TRUE]

\* an assert that reports nothing
EngineAssertSilent(value) == "ok"

\* Engine.assert: raises when the value is false
EngineAssert(value) == IF value THEN "ok" ELSE "throw"

\* get shader()
ShaderOf(g) == IF g.nextShader # Null THEN g.nextShader ELSE g.currentShader

\* set shader(s)
SetShader(g, s) ==
    IF ShaderOf(g) # s /\ s # Null THEN [g EXCEPT !.nextShader = s] ELSE g

\* get blendmode()
BlendmodeOf(g) == IF g.nextBlendmode # Null THEN g.nextBlendmode ELSE g.currentBlendmode

\* set blendmode(bm)
SetBlendmode(g, bm) ==
    IF g.currentBlendmode # bm /\ bm # Null THEN [g EXCEPT !.nextBlendmode = bm] ELSE g

\* Uniform value setter: marks the uniform and its shader dirty on a change
SetUniformValue(g, s, u, a) ==
    IF g.uniformValue[s][u] # a
    THEN [g EXCEPT !.uniformValue[s][u] = a,
                   !.shaderDirty[s] = TRUE,
                   !.uniformDirty[s][u] = TRUE]
    ELSE g

\* what one gl.drawArrays call draws, and the state it is drawn under
DrawRecord(g) ==
    [ program     |-> g.glProgram,
      blend       |-> g.glBlend,
      framebuffer |-> g.glFramebuffer,
      uniforms    |-> IF g.glProgram = Null THEN Null ELSE g.glUniforms[g.glProgram],
      verts       |-> {g.vertices[i] : i \in 1..Len(g.vertices)} ]

\* Graphics.flush
Flush(g) ==
    IF g.threw THEN g
    ELSE IF Len(g.vertices) > 0
    THEN IF g.currentShader = Null THEN Throw(g)
         ELSE [g EXCEPT !.draws = Append(@, DrawRecord(g)),
                        !.drawCalls = @ + 1,
                        !.vertices = <<>>]
    ELSE g

\* a setRenderTarget that rebinds the framebuffer before it flushes
SetRenderTargetLateFlush(g, target) ==
    IF g.threw THEN g
    ELSE IF g.currentTarget # target
    THEN Flush([g EXCEPT !.glFramebuffer = target, !.currentTarget = target])
    ELSE g

\* Graphics.setRenderTarget
SetRenderTarget(g, target) ==
    IF g.threw THEN g
    ELSE IF g.currentTarget # target
    THEN LET g1 == Flush(g)
         IN  IF g1.threw THEN g1
             ELSE [g1 EXCEPT !.glFramebuffer = target, !.currentTarget = target]
    ELSE g

\* Graphics.checkState: the swap of shader and blend mode and the upload of
\* the uniforms, after the flush
ApplyState(g) ==
    LET swapped == g.nextShader # Null
        g2 == IF swapped
              THEN [g EXCEPT !.currentShader = g.nextShader,
                             !.nextShader = Null,
                             !.glProgram = g.nextShader]
              ELSE g
        g3 == IF g2.nextBlendmode # Null
              THEN [g2 EXCEPT !.currentBlendmode = g2.nextBlendmode,
                              !.nextBlendmode = Null,
                              !.glBlend = g2.nextBlendmode]
              ELSE g2
        cs == g3.currentShader
        up(u) == u \in UniformsOf(cs) /\ (swapped \/ g3.uniformDirty[cs][u])
    IN  [g3 EXCEPT !.glUniforms[cs] =
                       [u \in UniformNames |->
                           IF up(u) THEN g3.uniformValue[cs][u] ELSE @[u]],
                   !.uniformDirty[cs] =
                       [u \in UniformNames |-> IF up(u) THEN FALSE ELSE @[u]],
                   !.shaderDirty[cs] = FALSE]

\* a checkState that applies the pending state before it flushes
CheckStateLateFlush(g) ==
    IF g.threw THEN g
    ELSE IF g.nextShader = Null /\ g.currentShader = Null
    THEN Throw(g)
    ELSE IF \/ g.nextShader # Null
            \/ g.shaderDirty[g.currentShader]
            \/ g.nextBlendmode # Null
    THEN LET g1 == ApplyState(g)
         IN  IF g.currentShader # Null THEN Flush(g1) ELSE g1
    ELSE g

\* Graphics.checkState
CheckState(g) ==
    IF g.threw THEN g
    ELSE IF g.nextShader = Null /\ g.currentShader = Null
    THEN Throw(g)  \* this.currentShader.dirty on null
    ELSE IF \/ g.nextShader # Null
            \/ g.shaderDirty[g.currentShader]
            \/ g.nextBlendmode # Null
    THEN LET g1 == IF g.currentShader # Null THEN Flush(g) ELSE g
         IN  IF g1.threw THEN g1 ELSE ApplyState(g1)
    ELSE g

\* one entry of the vertices / texcoords / colors arrays, with the state that
\* was applied when it was appended
Vertex(g) ==
    [ sh |-> g.glProgram,
      bm |-> g.glBlend,
      un |-> IF g.glProgram = Null THEN Null ELSE g.glUniforms[g.glProgram],
      tg |-> g.currentTarget ]

\* Graphics.pushUnsafe
PushUnsafe(g) ==
    IF g.threw THEN g ELSE [g EXCEPT !.vertices = Append(@, Vertex(g))]

\* Graphics.push
Push(g) == PushUnsafe(CheckState(g))

\* Graphics.setShaderTexture
SetShaderTexture(g, tex) ==
    IF g.threw THEN g
    ELSE IF ShaderOf(g) = Null THEN Throw(g)   \* this.shader.sampler2d on null
    ELSE IF EngineAssert(Sampler2d(ShaderOf(g)) # Null) = "throw" THEN Throw(g)
    ELSE IF Sampler2d(ShaderOf(g)) # Null
    THEN SetUniformValue(g, ShaderOf(g), Sampler2d(ShaderOf(g)), tex)
    ELSE g

\* Graphics.texture: six vertices, the first through push
Texture(g, tex) ==
    PushUnsafe(PushUnsafe(PushUnsafe(PushUnsafe(PushUnsafe(
        Push(SetShaderTexture(g, tex)))))))

\* Graphics.reset
Reset(g) ==
    LET g1 == [g EXCEPT !.drawCalls = 0,
                        !.currentShader = Null,
                        !.nextShader = Null,
                        !.vertices = <<>>]
    IN  SetRenderTarget(g1, "buffer")

\* the start of an operation: nothing drawn or raised by it yet
Begin(g) == [g EXCEPT !.draws = <<>>, !.threw = FALSE]

Op(name, arg) == [op |-> name, arg |-> arg]

ShaderCall(s) ==
    /\ graphics' = Begin(SetShader(graphics, s))
    /\ gfxLast' = Op("assign", Null)

BlendmodeCall(bm) ==
    /\ graphics' = Begin(SetBlendmode(graphics, bm))
    /\ gfxLast' = Op("assign", Null)

UniformCall(s, u, a) ==
    /\ u \in UniformsOf(s)
    /\ graphics' = Begin(SetUniformValue(graphics, s, u, a))
    /\ gfxLast' = Op("assign", Null)

PushCall ==
    /\ graphics.drawCalls < MaxDraws
    /\ graphics' = Push(Begin(graphics))
    /\ Len(graphics'.vertices) <= MaxVerts
    /\ gfxLast' = Op("push", Null)

TextureCall(tex) ==
    /\ graphics.drawCalls < MaxDraws
    /\ graphics' = Texture(Begin(graphics), tex)
    /\ Len(graphics'.vertices) <= MaxVerts
    /\ gfxLast' = Op("texture", Null)

FlushCall ==
    /\ graphics.drawCalls < MaxDraws
    /\ graphics' = Flush(Begin(graphics))
    /\ gfxLast' = Op("flush", Null)

SetRenderTargetCall(t) ==
    /\ graphics.drawCalls < MaxDraws
    /\ graphics' = SetRenderTarget(Begin(graphics), t)
    /\ gfxLast' = Op("setRenderTarget", t)

ResetCall ==
    /\ graphics' = Reset(Begin(graphics))
    /\ gfxLast' = Op("reset", Null)

GfxSetShader(s) == ShaderCall(s) /\ UNCHANGED <<batch, physVars, libVars>>

GfxSetBlendmode(bm) == BlendmodeCall(bm) /\ UNCHANGED <<batch, physVars, libVars>>

GfxSetUniform(s, u, a) == UniformCall(s, u, a) /\ UNCHANGED <<batch, physVars, libVars>>

GfxPush == PushCall /\ UNCHANGED <<batch, physVars, libVars>>

GfxTexture(tex) == TextureCall(tex) /\ UNCHANGED <<batch, physVars, libVars>>

GfxFlush == FlushCall /\ UNCHANGED <<batch, physVars, libVars>>

GfxSetRenderTarget(t) == SetRenderTargetCall(t) /\ UNCHANGED <<batch, physVars, libVars>>

GfxReset == ResetCall /\ UNCHANGED <<batch, physVars, libVars>>

GfxNext ==
    \/ \E s \in ShaderNames : GfxSetShader(s)
    \/ \E bm \in BlendModeNames : GfxSetBlendmode(bm)
    \/ \E s \in ShaderNames, u \in UniformNames, a \in UniformValues :
          GfxSetUniform(s, u, a)
    \/ GfxPush
    \/ \E tex \in Textures : GfxTexture(tex)
    \/ GfxFlush
    \/ \E t \in RenderTargets : GfxSetRenderTarget(t)
    \/ GfxReset

(***************************************************************************)
(* A batch: push calls interleaved with shader and blendmode assignments,  *)
(* ended by one flush.  batch counts the maximal runs of pushed vertices   *)
(* that share the (shader, blendmode) pair the getters return at the push. *)
(***************************************************************************)
BatchInit == [runs |-> 0, lastPair |-> <<Null, Null>>, ended |-> FALSE]

EffectivePair(g) == <<ShaderOf(g), BlendmodeOf(g)>>

BatchSetShader(s) ==
    /\ ~batch.ended
    /\ ShaderCall(s)
    /\ UNCHANGED <<batch, physVars, libVars>>

BatchSetBlendmode(bm) ==
    /\ ~batch.ended
    /\ BlendmodeCall(bm)
    /\ UNCHANGED <<batch, physVars, libVars>>

BatchPush ==
    /\ ~batch.ended
    /\ ShaderOf(graphics) # Null
    /\ batch.runs < MaxRuns
    /\ PushCall
    /\ batch' = [batch EXCEPT
                    !.runs = IF EffectivePair(graphics) # batch.lastPair
                             THEN @ + 1 ELSE @,
                    !.lastPair = EffectivePair(graphics)]
    /\ UNCHANGED <<physVars, libVars>>

BatchFlush ==
    /\ ~batch.ended
    /\ FlushCall
    /\ batch' = [batch EXCEPT !.ended = TRUE]
    /\ UNCHANGED <<physVars, libVars>>

BatchReset ==
    /\ ResetCall
    /\ batch' = BatchInit
    /\ UNCHANGED <<physVars, libVars>>

BatchNext ==
    \/ \E s \in ShaderNames : BatchSetShader(s)
    \/ \E bm \in BlendModeNames : BatchSetBlendmode(bm)
    \/ BatchPush
    \/ BatchFlush
    \/ BatchReset

GfxInit ==
    /\ graphics = GraphicsInit
    /\ gfxLast = Op("new", Null)
    /\ batch = BatchInit

(***************************************************************************)
(* Physics mover, Collider queries and the scene's collider index          *)
(***************************************************************************)
\* lengths are whole units; amounts, speeds and remainders are counted in
\* Scale-ths of a unit, on which the code's floating point is exact
Abs(n) == IF n < 0 THEN -n ELSE n

\* Calc.sign
CalcSign(n) == IF n < 0 THEN -1 ELSE IF n > 0 THEN 1 ELSE 0

\* the integer part of a / b, truncated toward zero
TruncDiv(a, b) == IF a >= 0 THEN a \div b ELSE -((-a) \div b)

\* JavaScript a % 1 (the sign of the dividend), in Scale-ths
JSRem(a) == a - Scale * TruncDiv(a, Scale)

\* Math.round: floor(a + 0.5), in whole units
MathRound(a) == (2 * a + Scale) \div (2 * Scale)

\* the colliders of the scene: the Physics component of the player entity and
\* two Hitbox walls of the level entity, one unit thick
ColliderIds == {"body", "wallA", "wallB"}

ColliderOf(id) ==
    CASE id = "body"  -> [entity |-> "player", type |-> "Hitbox",
                          left |-> 0, top |-> 0, width |-> 1, height |-> 1]
      [] id = "wallA" -> [entity |-> "level", type |-> "Hitbox",
                          left |-> 2, top |-> -1, width |-> 1, height |-> 3]
      [] id = "wallB" -> [entity |-> "level", type |-> "Hitbox",
                          left |-> -1, top |-> 2, width |-> 3, height |-> 1]

\* Hitbox.sceneLeft / sceneRight / sceneTop / sceneBottom of collider id when
\* the player entity is at (ex, ey) and the Physics component's local
\* position is (px, py); the level entity stays at the origin
SceneBounds(id, ex, ey, px, py) ==
    LET c == ColliderOf(id)
        sx == IF id = "body" THEN ex + px ELSE 0
        sy == IF id = "body" THEN ey + py ELSE 0
    IN  [left |-> sx + c.left, right |-> sx + c.left + c.width,
         top |-> sy + c.top, bottom |-> sy + c.top + c.height]

\* a Hitbox-Hitbox test that counts touching edges
HitboxOverlapClosed(a, b) ==
    /\ a.right >= b.left
    /\ a.bottom >= b.top
    /\ a.left <= b.right
    /\ a.top <= b.bottom

\* the Hitbox-Hitbox overlap test
HitboxOverlap(a, b) ==
    /\ a.right > b.left
    /\ a.bottom > b.top
    /\ a.left < b.right
    /\ a.top < b.bottom

\* Scene.allCollidersInTag
AllCollidersInTag(tag) ==
    IF tag \in DOMAIN colliders THEN colliders[tag] ELSE <<>>

\* Collider.collide: the first collider of the tag that overlaps this one
\* translated by (dx, dy); the translation is undone before returning
RECURSIVE FirstOverlap(_, _, _, _, _, _)
FirstOverlap(against, i, ex, ey, dx, dy) ==
    IF i > Len(against) THEN Null
    ELSE IF HitboxOverlap(SceneBounds("body", ex, ey, dx, dy),
                          SceneBounds(against[i], ex, ey, dx, dy))
    THEN against[i]
    ELSE FirstOverlap(against, i + 1, ex, ey, dx, dy)

Collide(tag, ex, ey, dx, dy) ==
    FirstOverlap(AllCollidersInTag(tag), 1, ex, ey, dx, dy)

\* Collider.collides: the first hit across the tags, in their order
RECURSIVE Collides(_, _, _, _, _, _)
Collides(tags, i, ex, ey, dx, dy) ==
    IF i > Len(tags) THEN Null
    ELSE LET hit == Collide(tags[i], ex, ey, dx, dy)
         IN  IF hit # Null THEN hit
             ELSE Collides(tags, i + 1, ex, ey, dx, dy)

\* what an operation of the mover leaves in the log
Event(k, axis, m, sign, hit, blocked) ==
    [k |-> k, axis |-> axis, at |-> <<m.ex, m.ey>>, sign |-> sign,
     hit |-> hit, blocked |-> blocked]

\* callbacks as the built module makes them: the onCollide list is skipped
CollisionCallbacksAxisOnly(m, axis, hit) ==
    IF (axis = "x" /\ physics.onCollideX) \/ (axis = "y" /\ physics.onCollideY)
    THEN <<Event("onCollide" \o axis, axis, m, 0, hit, TRUE)>>
    ELSE <<>>

\* the collision callbacks of a blocked step: onCollideX / onCollideY when
\* set, then every function of the onCollide list
CollisionCallbacks(m, axis, hit) ==
    LET one == IF (axis = "x" /\ physics.onCollideX) \/ (axis = "y" /\ physics.onCollideY)
               THEN <<Event("onCollide" \o axis, axis, m, 0, hit, TRUE)>>
               ELSE <<>>
        all == [i \in 1..physics.onCollide |->
                   Event("onCollide", axis, m, i, hit, TRUE)]
    IN  one \o all

\* a blocked branch that keeps the remainder
BlockedKeepsRemainder(m, axis, sign, hit) ==
    [m EXCEPT !.events = @ \o <<Event("probe", axis, m, sign, hit, TRUE)>>
                           \o CollisionCallbacks(m, axis, hit),
              !.result = FALSE]

\* the blocked branch of moveXAbsolute / moveYAbsolute
Blocked(m, axis, sign, hit) ==
    LET m1 == IF axis = "x" THEN [m EXCEPT !.rx = 0] ELSE [m EXCEPT !.ry = 0]
    IN  [m1 EXCEPT !.events = @ \o <<Event("probe", axis, m, sign, hit, TRUE)>>
                                 \o CollisionCallbacks(m, axis, hit),
                   !.result = FALSE]

\* the free branch: the unit step is committed
Stepped(m, axis, sign, hit) ==
    LET m1 == [m EXCEPT !.events = @ \o <<Event("probe", axis, m, sign, hit, FALSE)>>]
    IN  IF axis = "x" THEN [m1 EXCEPT !.ex = @ + sign]
        ELSE [m1 EXCEPT !.ey = @ + sign]

\* const isMe = hit && hit.entity ? hit.entity === entity : false
IsMe(hit) == IF hit # Null THEN ColliderOf(hit).entity = "player" ELSE FALSE

\* the while loop of moveXAbsolute / moveYAbsolute
RECURSIVE Sweep(_, _, _, _)
Sweep(m, axis, sign, amount) ==
    IF amount > 0
    THEN LET hit == IF axis = "x"
                    THEN Collides(physics.solids, 1, m.ex, m.ey, sign, 0)
                    ELSE Collides(physics.solids, 1, m.ex, m.ey, 0, sign)
         IN  IF hit # Null /\ ~IsMe(hit)
             THEN Blocked(m, axis, sign, hit)
             ELSE Sweep(Stepped(m, axis, sign, hit), axis, sign, amount - 1)
    ELSE [m EXCEPT !.result = TRUE]

\* Physics.moveXAbsolute
MoveXAbsolute(m, amount) ==
    IF Len(physics.solids) <= 0
    THEN [m EXCEPT !.ex = @ + MathRound(amount), !.result = TRUE]
    ELSE Sweep(m, "x", CalcSign(amount), Abs(MathRound(amount)))

\* Physics.moveYAbsolute
MoveYAbsolute(m, amount) ==
    IF Len(physics.solids) <= 0
    THEN [m EXCEPT !.ey = @ + MathRound(amount), !.result = TRUE]
    ELSE Sweep(m, "y", CalcSign(amount), Abs(MathRound(amount)))

\* a moveX that rounds the amount and carries nothing over
MoveXNoCarry(m, amount) ==
    LET m1 == [m EXCEPT !.rx = 0,
                        !.events = @ \o <<Event("moveX", "x", m, 0, Null, FALSE)>>]
    IN  MoveXAbsolute(m1, amount)

\* Physics.moveX
MoveX(m, amount) ==
    LET moveBy == amount + m.rx
        m1 == [m EXCEPT !.rx = JSRem(moveBy),
                        !.events = @ \o <<Event("moveX", "x", m, 0, Null, FALSE)>>]
    IN  MoveXAbsolute(m1, moveBy - m1.rx)

\* Physics.moveY
MoveY(m, amount) ==
    LET moveBy == amount + m.ry
        m1 == [m EXCEPT !.ry = JSRem(moveBy),
                        !.events = @ \o <<Event("moveY", "y", m, 0, Null, FALSE)>>]
    IN  MoveYAbsolute(m1, moveBy - m1.ry)

\* Physics.move / Physics.moveBy
Move(m, x, y) ==
    LET mx == MoveX(m, x)
        my == MoveY(mx, y)
    IN  [my EXCEPT !.result = mx.result /\ my.result]

\* speed * Engine.delta in Scale-ths of a unit: speeds are whole units per
\* second and Engine.delta is one Scale-th of a second
TimesDelta(speed) == speed

\* an update that gives up the Y axis when X was blocked
UpdateStopsWhenBlocked(m) ==
    LET mx == IF physics.speed.x # 0 THEN MoveX(m, TimesDelta(physics.speed.x)) ELSE m
    IN  IF physics.speed.y # 0 /\ mx.result
        THEN MoveY(mx, TimesDelta(physics.speed.y)) ELSE mx

\* Physics.update
Update(m) ==
    LET mx == IF physics.speed.x # 0 THEN MoveX(m, TimesDelta(physics.speed.x)) ELSE m
    IN  IF physics.speed.y # 0 THEN MoveY(mx, TimesDelta(physics.speed.y)) ELSE mx

\* a collision callback of the X axis ran: the game's callback takes the
\* entity out of its scene (Scene.remove sets entity.scene to null)
LeftScene(m) ==
    \E i \in 1..Len(m.events) :
        m.events[i].axis = "x" /\ m.events[i].k \in {"onCollidex", "onCollide"}

\* moveY and moveYAbsolute of an entity whose scene is null: with solids and
\* at least one unit to go, the first this.collides reads
\* this.entity.scene.allCollidersInTag and raises a TypeError
MoveYOutside(m, amount) ==
    LET moveBy == amount + m.ry
        m1     == [m EXCEPT !.ry = JSRem(moveBy),
                            !.events = @ \o <<Event("moveY", "y", m, 0, Null, FALSE)>>]
        whole  == moveBy - m1.ry
    IN  IF Len(physics.solids) <= 0
        THEN [mover  |-> [m1 EXCEPT !.ey = @ + MathRound(whole), !.result = TRUE],
              raised |-> FALSE]
        ELSE IF Abs(MathRound(whole)) > 0
        THEN [mover  |-> [m1 EXCEPT !.events =
                             @ \o <<Event("probe", "y", m1, CalcSign(whole), Null, FALSE)>>],
              raised |-> TRUE]
        ELSE [mover |-> [m1 EXCEPT !.result = TRUE], raised |-> FALSE]

\* Physics.update of a mover whose X callbacks remove its entity
UpdateLeaving(m) ==
    LET mx == IF physics.speed.x # 0 THEN MoveX(m, TimesDelta(physics.speed.x)) ELSE m
    IN  IF ~LeftScene(mx)
        THEN [mover  |-> IF physics.speed.y # 0
                         THEN MoveY(mx, TimesDelta(physics.speed.y)) ELSE mx,
              raised |-> FALSE,
              left   |-> FALSE]
        ELSE IF physics.speed.y # 0
        THEN [mover  |-> MoveYOutside(mx, TimesDelta(physics.speed.y)).mover,
              raised |-> MoveYOutside(mx, TimesDelta(physics.speed.y)).raised,
              left   |-> TRUE]
        ELSE [mover |-> mx, raised |-> FALSE, left |-> TRUE]

\* the mover as an operation finds it
Mover ==
    [ex |-> entity.x, ey |-> entity.y,
     rx |-> physics.remainder.x, ry |-> physics.remainder.y,
     events |-> <<>>, result |-> TRUE]

InArena(m) == Abs(m.ex - 1) <= MaxPos /\ Abs(m.ey - 1) <= MaxPos

\* the outcome of an operation written back to the entity and the component
Commit(name, amount, m) ==
    /\ InArena(m)
    /\ entity' = [x |-> m.ex, y |-> m.ey]
    /\ physics' = [physics EXCEPT !.remainder = [x |-> m.rx, y |-> m.ry]]
    /\ physLast' = [op |-> name, amount |-> amount, result |-> m.result,
                    events |-> m.events]
    /\ UNCHANGED colliders

Amounts == (-MaxAmount)..MaxAmount

Speeds == {-MaxSpeed, 0, 1}

MoveXCall(a) == Commit("moveX", a, MoveX(Mover, a))

MoveYCall(a) == Commit("moveY", a, MoveY(Mover, a))

MoveXAbsoluteCall(a) == Commit("moveXAbsolute", a, MoveXAbsolute(Mover, a))

MoveYAbsoluteCall(a) == Commit("moveYAbsolute", a, MoveYAbsolute(Mover, a))

MoveCall(x, y) == Commit("move", <<x, y>>, Move(Mover, x, y))

UpdateCall ==
    Commit("update", <<physics.speed.x, physics.speed.y>>, Update(Mover))

\* the game assigns Physics.speed
SetSpeedCall(sx, sy) ==
    /\ physics' = [physics EXCEPT !.speed = [x |-> sx, y |-> sy]]
    /\ physLast' = [op |-> "speed", amount |-> <<sx, sy>>, result |-> TRUE,
                    events |-> <<>>]
    /\ UNCHANGED <<entity, colliders>>

\* Physics.stop
StopCall ==
    /\ physics' = [physics EXCEPT !.speed = [x |-> 0, y |-> 0],
                                  !.remainder = [x |-> 0, y |-> 0]]
    /\ physLast' = [op |-> "stop", amount |-> 0, result |-> TRUE, events |-> <<>>]
    /\ UNCHANGED <<entity, colliders>>

PhysMoveX(a) == MoveXCall(a) /\ UNCHANGED <<gfxVars, carry, libVars>>

PhysMoveY(a) == MoveYCall(a) /\ UNCHANGED <<gfxVars, carry, libVars>>

PhysMoveXAbsolute(a) == MoveXAbsoluteCall(a) /\ UNCHANGED <<gfxVars, carry, libVars>>

PhysMoveYAbsolute(a) == MoveYAbsoluteCall(a) /\ UNCHANGED <<gfxVars, carry, libVars>>

PhysStop == StopCall /\ UNCHANGED <<gfxVars, carry, libVars>>

PhysNext ==
    \/ \E a \in Amounts : PhysMoveX(a)
    \/ \E a \in Amounts : PhysMoveY(a)
    \/ \E a \in Amounts : PhysMoveXAbsolute(a)
    \/ \E a \in Amounts : PhysMoveYAbsolute(a)
    \/ PhysStop

(***************************************************************************)
(* Both axes in one call: Physics.update driven by the speed the game      *)
(* assigns, and Physics.move                                               *)
(***************************************************************************)
AxesSetSpeed(sx, sy) == SetSpeedCall(sx, sy) /\ UNCHANGED <<gfxVars, carry, libVars>>

AxesUpdate == UpdateCall /\ UNCHANGED <<gfxVars, carry, libVars>>

AxesMove(x, y) == MoveCall(x, y) /\ UNCHANGED <<gfxVars, carry, libVars>>

AxesStop == StopCall /\ UNCHANGED <<gfxVars, carry, libVars>>

\* Physics.update with callbacks that remove the entity; the game has added
\* the entity again before the next call
LeaveUpdate ==
    LET u == UpdateLeaving(Mover)
    IN  /\ InArena(u.mover)
        /\ entity' = [x |-> u.mover.ex, y |-> u.mover.ey]
        /\ physics' = [physics EXCEPT !.remainder = [x |-> u.mover.rx, y |-> u.mover.ry]]
        /\ physLast' = [op |-> "updateLeaving",
                        amount |-> <<physics.speed.x, physics.speed.y>>,
                        result |-> u.mover.result, events |-> u.mover.events,
                        raised |-> u.raised, left |-> u.left]
        /\ UNCHANGED <<colliders, gfxVars, carry, libVars>>

LeaveNext ==
    \/ \E sx \in Speeds, sy \in Speeds : AxesSetSpeed(sx, sy)
    \/ \E x \in Speeds, y \in Speeds : AxesMove(x, y)
    \/ AxesStop
    \/ LeaveUpdate

AxesNext ==
    \/ \E sx \in Speeds, sy \in Speeds : AxesSetSpeed(sx, sy)
    \/ AxesUpdate
    \/ \E x \in Speeds, y \in Speeds : AxesMove(x, y)
    \/ AxesStop

(***************************************************************************)
(* The sub-pixel carry: moveX / moveY calls since the mover was constructed *)
(* at the origin.  carry keeps, per axis, the sum of the amounts, the signs *)
(* of the amounts, the number of calls, and whether a call was blocked;    *)
(* nothing more is kept of an axis once a call on it was blocked.          *)
(***************************************************************************)
CarryAfter(axis, a, result, c) ==
    [c EXCEPT ![axis] =
        IF @.blocked \/ ~result
        THEN [sum |-> 0, blocked |-> TRUE, signs |-> {}, n |-> 0]
        ELSE [sum |-> @.sum + a,
              blocked |-> FALSE,
              signs |-> @.signs \cup (IF a = 0 THEN {} ELSE {CalcSign(a)}),
              n |-> IF @.n < MaxCalls THEN @.n + 1 ELSE @.n]]

CarryMoveX(a) ==
    /\ MoveXCall(a)
    /\ carry' = CarryAfter("x", a, physLast'.result, carry)
    /\ UNCHANGED <<gfxVars, libVars>>

CarryMoveY(a) ==
    /\ MoveYCall(a)
    /\ carry' = CarryAfter("y", a, physLast'.result, carry)
    /\ UNCHANGED <<gfxVars, libVars>>

CarryNext ==
    \/ \E a \in Amounts : CarryMoveX(a)
    \/ \E a \in Amounts : CarryMoveY(a)

\* the scenes a game can build: the mover collides against the solid tag or
\* against nothing; its Physics component carries the solid tag itself or
\* not, and is then tracked before or after the walls; onCollideY alone is
\* set, or onCollideX and two functions of the onCollide list
OnlyY == [x |-> FALSE, y |-> TRUE, n |-> 0]

XAndList == [x |-> TRUE, y |-> FALSE, n |-> 2]

GhostScene == [solids |-> <<>>, index |-> <<"wallA", "wallB">>, cb |-> OnlyY]

WalledScene == [solids |-> <<"solid">>, index |-> <<"wallA", "wallB">>, cb |-> XAndList]

TaggedScene ==
    [solids |-> <<"solid">>, index |-> <<"body", "wallA", "wallB">>, cb |-> OnlyY]

Scenes ==
    { GhostScene,
      WalledScene,
      TaggedScene,
      [solids |-> <<"solid">>, index |-> <<"wallA", "wallB">>, cb |-> OnlyY],
      [solids |-> <<"solid">>, index |-> <<"wallA", "wallB", "body">>, cb |-> XAndList] }

CarryInit == [a \in {"x", "y"} |-> [sum |-> 0, blocked |-> FALSE,
                                    signs |-> {}, n |-> 0]]

\* a Physics component as constructed, with no solids and no callbacks
PhysicsNew ==
    [solids |-> <<>>, onCollideX |-> FALSE, onCollideY |-> FALSE, onCollide |-> 0,
     speed |-> [x |-> 0, y |-> 0], remainder |-> [x |-> 0, y |-> 0]]

\* the mover at rest while another part of the engine is observed
PhysIdle ==
    /\ entity = [x |-> 0, y |-> 0]
    /\ colliders = [solid |-> <<"wallA", "wallB">>]
    /\ physics = PhysicsNew
    /\ physLast = [op |-> "new", amount |-> 0, result |-> TRUE, events |-> <<>>]
    /\ carry = CarryInit

\* the mover constructed at the origin in one of the scenes S
PhysStart(S) ==
    /\ entity = [x |-> 0, y |-> 0]
    /\ \E sc \in S :
          /\ colliders = [solid |-> sc.index]
          /\ physics = [PhysicsNew EXCEPT !.solids = sc.solids,
                                          !.onCollideX = sc.cb.x,
                                          !.onCollideY = sc.cb.y,
                                          !.onCollide = sc.cb.n]
    /\ physLast = [op |-> "new", amount |-> 0, result |-> TRUE, events |-> <<>>]
    /\ carry = CarryInit

PhysInit == PhysStart(Scenes)

(***************************************************************************)
(* Collider: the overlap-test registry and the queries of one collider     *)
(* against the colliders of a tag                                          *)
(***************************************************************************)
\* the values of Collider.type: the two the engine provides and one a game
\* adds
Types == {"Hitbox", "Hitgrid", "Circle"}

\* the colliders of the scene: the Hitbox that makes the queries, a second
\* Hitbox, a Hitgrid, and a collider of the game's own type
ShapeIds == {"boxA", "boxB", "grid", "orb"}

TypeOf(id) ==
    CASE id \in {"boxA", "boxB"} -> "Hitbox"
      [] id = "grid" -> "Hitgrid"
      [] id = "orb" -> "Circle"

\* the colliders as constructed: Component.position and the Hitbox fields;
\* tiles is the set of (tx, ty) for which Hitgrid.map[tx][ty] is true
ShapesInit ==
    [boxA |-> [x |-> -1, y |-> 0, left |-> 0, top |-> 0, width |-> 1, height |-> 1],
     boxB |-> [x |-> 0, y |-> 0, left |-> 0, top |-> 0, width |-> 2, height |-> 2],
     grid |-> [x |-> 1, y |-> -1, tiles |-> {}],
     orb  |-> [x |-> 0, y |-> 0]]

\* the tag index of the scene the colliders are in
TagIndex == [solid |-> <<"boxB", "grid">>, coin |-> <<"orb">>]

TaggedWith(tag) == IF tag \in DOMAIN TagIndex THEN TagIndex[tag] ELSE <<>>

\* Collider.overlaptest[from][to] = v
Installed(reg, from, to, v) ==
    [k \in DOMAIN reg \cup {<<from, to>>} |->
        IF k = <<from, to>> THEN v ELSE reg[k]]

\* a registration that installs the test for (from, to) only
RegisterOneWay(reg, fromType, toType, test) ==
    Installed(reg, fromType, toType, [fn |-> test, swapped |-> FALSE])

\* Collider.registerOverlapTest: the test for (from, to), then the wrapper
\* with the arguments exchanged for (to, from)
RegisterOverlapTest(reg, fromType, toType, test) ==
    Installed(Installed(reg, fromType, toType, [fn |-> test, swapped |-> FALSE]),
              toType, fromType, [fn |-> test, swapped |-> TRUE])

\* DefaultOverlapTests, run once when the engine starts
DefaultOverlapTests ==
    RegisterOverlapTest(
        RegisterOverlapTest(<<>>, "Hitbox", "Hitbox", "hitboxHitbox"),
        "Hitbox", "Hitgrid", "hitboxHitgrid")

\* Component.scenePosition; the entities are at the origin
ScenePosition(sh, id) == [x |-> sh[id].x, y |-> sh[id].y]

\* Hitbox.sceneLeft / sceneRight / sceneTop / sceneBottom
HitboxBounds(sh, id) ==
    [left |-> sh[id].x + sh[id].left,
     right |-> sh[id].x + sh[id].left + sh[id].width,
     top |-> sh[id].y + sh[id].top,
     bottom |-> sh[id].y + sh[id].top + sh[id].height]

\* Math.floor(a / b) and Math.ceil(a / b) for b > 0
FloorDiv(a, b) == a \div b

CeilDiv(a, b) == -((-a) \div b)

\* Hitgrid.has(tx, ty)
Has(sh, g, tx, ty) == <<tx, ty>> \in sh[g].tiles

\* a Hitbox-Hitgrid test that takes the last tile column and row with floor
HitboxHitgridFloor(sh, a, b) ==
    LET box == HitboxBounds(sh, a)
        gridPosition == ScenePosition(sh, b)
        left == FloorDiv(box.left - gridPosition.x, TileSize)
        top == FloorDiv(box.top - gridPosition.y, TileSize)
        right == FloorDiv(box.right - gridPosition.x, TileSize)
        bottom == FloorDiv(box.bottom - gridPosition.y, TileSize)
    IN  \E x \in left..right, y \in top..bottom : Has(sh, b, x, y)

\* the Hitbox-Hitgrid overlap test
HitboxHitgrid(sh, a, b) ==
    LET box == HitboxBounds(sh, a)
        gridPosition == ScenePosition(sh, b)
        left == FloorDiv(box.left - gridPosition.x, TileSize)
        top == FloorDiv(box.top - gridPosition.y, TileSize)
        right == CeilDiv(box.right - gridPosition.x, TileSize)
        bottom == CeilDiv(box.bottom - gridPosition.y, TileSize)
    IN  \E x \in left..(right - 1), y \in top..(bottom - 1) : Has(sh, b, x, y)

\* the test functions: the two of DefaultOverlapTests, and one a game
\* registers, which is not symmetric in its arguments
Test(fn, sh, a, b) ==
    CASE fn = "hitboxHitbox" -> HitboxOverlap(HitboxBounds(sh, a), HitboxBounds(sh, b))
      [] fn = "hitboxHitgrid" -> HitboxHitgrid(sh, a, b)
      [] fn = "leftOf" -> ScenePosition(sh, a).x < ScenePosition(sh, b).x

Returned(v) == [threw |-> FALSE, value |-> v]

Raised == [threw |-> TRUE, value |-> FALSE]

\* an overlap that answers false for a pair without a test
OverlapSilent(reg, sh, a, b) ==
    LET pair == <<TypeOf(a), TypeOf(b)>>
    IN  IF pair \notin DOMAIN reg THEN Returned(FALSE)
        ELSE IF reg[pair].swapped THEN Returned(Test(reg[pair].fn, sh, b, a))
        ELSE Returned(Test(reg[pair].fn, sh, a, b))

\* Collider.overlap: Collider.overlaptest[a.type][b.type](a, b); calling what
\* is not there raises a TypeError
Overlap(reg, sh, a, b) ==
    LET pair == <<TypeOf(a), TypeOf(b)>>
    IN  IF pair \notin DOMAIN reg THEN Raised
        ELSE IF reg[pair].swapped THEN Returned(Test(reg[pair].fn, sh, b, a))
        ELSE Returned(Test(reg[pair].fn, sh, a, b))

\* this.x += x || 0; this.y += y || 0
Translated(sh, c, dx, dy) == [sh EXCEPT ![c].x = @ + dx, ![c].y = @ + dy]

\* the loop of Collider.collide over the colliders of the tag: the first
\* that overlaps, unless a test raises before
RECURSIVE FirstHit(_, _, _, _, _)
FirstHit(reg, sh, c, against, i) ==
    IF i > Len(against) THEN [threw |-> FALSE, hits |-> <<>>]
    ELSE LET o == Overlap(reg, sh, c, against[i])
         IN  IF o.threw THEN [threw |-> TRUE, hits |-> <<>>]
             ELSE IF o.value THEN [threw |-> FALSE, hits |-> <<against[i]>>]
             ELSE FirstHit(reg, sh, c, against, i + 1)

\* the loop of Collider.collideAll: every collider of the tag that overlaps
RECURSIVE AllHits(_, _, _, _, _)
AllHits(reg, sh, c, against, i) ==
    IF i > Len(against) THEN [threw |-> FALSE, hits |-> <<>>]
    ELSE LET o == Overlap(reg, sh, c, against[i])
             rest == AllHits(reg, sh, c, against, i + 1)
         IN  IF o.threw \/ rest.threw THEN [threw |-> TRUE, hits |-> <<>>]
             ELSE [threw |-> FALSE,
                   hits |-> (IF o.value THEN <<against[i]>> ELSE <<>>) \o rest.hits]

\* a query leaves the collider translated when a test raised, and undoes the
\* translation when the loop ended
Queried(sh, c, dx, dy, r) ==
    [threw |-> r.threw, hits |-> r.hits,
     shapes |-> IF r.threw THEN Translated(sh, c, dx, dy) ELSE sh]

\* Collider.collide
ColliderCollide(reg, sh, c, tag, dx, dy) ==
    Queried(sh, c, dx, dy,
            FirstHit(reg, Translated(sh, c, dx, dy), c, TaggedWith(tag), 1))

\* Collider.collideAll
ColliderCollideAll(reg, sh, c, tag, dx, dy) ==
    Queried(sh, c, dx, dy,
            AllHits(reg, Translated(sh, c, dx, dy), c, TaggedWith(tag), 1))

\* Collider.collides: collide for each tag in turn, until one hits or raises
RECURSIVE ColliderCollides(_, _, _, _, _, _, _)
ColliderCollides(reg, sh, c, tags, i, dx, dy) ==
    IF i > Len(tags) THEN [threw |-> FALSE, hits |-> <<>>, shapes |-> sh]
    ELSE LET q == ColliderCollide(reg, sh, c, tags[i], dx, dy)
         IN  IF q.threw \/ q.hits # <<>> THEN q
             ELSE ColliderCollides(reg, sh, c, tags, i + 1, dx, dy)

Coords == (-MaxCoord)..MaxCoord

Sizes == 0..MaxSize

\* the tiles a game sets or clears: one at negative, one at non-negative
\* tile coordinates
TileCoords == {<<-1, -1>>, <<0, 0>>}

\* the translations a query is made with
Deltas == {<<1, 0>>, <<-1, 1>>}

QueryTags == {"solid", "coin"}

InRange(sh) == sh["boxA"].x \in Coords /\ sh["boxA"].y \in Coords

ColOp(name, a, b, d, r) ==
    [op |-> name, a |-> a, b |-> b, d |-> d, threw |-> r.threw,
     value |-> r.value, hits |-> r.hits]

\* the game moves the probing Hitbox
PlaceCall(x, y) ==
    /\ shapes' = [shapes EXCEPT !["boxA"].x = x, !["boxA"].y = y]
    /\ colLast' = ColOp("place", "boxA", Null, <<x, y>>,
                        [threw |-> FALSE, value |-> FALSE, hits |-> <<>>])
    /\ UNCHANGED overlaptest

\* the game gives the probing Hitbox another size
ResizeCall(w, h) ==
    /\ shapes' = [shapes EXCEPT !["boxA"].width = w, !["boxA"].height = h]
    /\ colLast' = ColOp("resize", "boxA", Null, <<w, h>>,
                        [threw |-> FALSE, value |-> FALSE, hits |-> <<>>])
    /\ UNCHANGED overlaptest

\* Hitgrid.set(solid, tx, ty)
SetTileCall(solid, t) ==
    /\ shapes' = [shapes EXCEPT !["grid"].tiles =
                     IF solid THEN @ \cup {t} ELSE @ \ {t}]
    /\ colLast' = ColOp("set", "grid", Null, t,
                        [threw |-> FALSE, value |-> solid, hits |-> <<>>])
    /\ UNCHANGED overlaptest

OverlapCall(a, b) ==
    LET o == Overlap(overlaptest, shapes, a, b)
    IN  /\ colLast' = ColOp("overlap", a, b, <<0, 0>>,
                            [threw |-> o.threw, value |-> o.value, hits |-> <<>>])
        /\ UNCHANGED <<overlaptest, shapes>>

QueryDone(name, tag, d, q, value) ==
    /\ InRange(q.shapes)
    /\ shapes' = q.shapes
    /\ colLast' = ColOp(name, "boxA", tag, d,
                        [threw |-> q.threw, value |-> value, hits |-> q.hits])
    /\ UNCHANGED overlaptest

CollideCall(tag, d) ==
    LET q == ColliderCollide(overlaptest, shapes, "boxA", tag, d[1], d[2])
    IN  QueryDone("collide", tag, d, q, q.hits # <<>>)

CollideAllCall(tag, d) ==
    LET q == ColliderCollideAll(overlaptest, shapes, "boxA", tag, d[1], d[2])
    IN  QueryDone("collideAll", tag, d, q, q.hits # <<>>)

\* Collider.check: this.collide(tag, x, y) != null
CheckCall(tag, d) ==
    LET q == ColliderCollide(overlaptest, shapes, "boxA", tag, d[1], d[2])
    IN  QueryDone("check", tag, d, [q EXCEPT !.hits = <<>>], q.hits # <<>>)

CollidesCall(tags, d) ==
    LET q == ColliderCollides(overlaptest, shapes, "boxA", tags, 1, d[1], d[2])
    IN  QueryDone("collides", tags, d, q, q.hits # <<>>)

RegisterCall(fromType, toType, test) ==
    /\ overlaptest' = RegisterOverlapTest(overlaptest, fromType, toType, test)
    /\ colLast' = ColOp("register", fromType, toType, <<0, 0>>,
                        [threw |-> FALSE, value |-> FALSE, hits |-> <<test>>])
    /\ UNCHANGED shapes

ColUnchanged ==
    UNCHANGED <<gfxVars, physVars, sceneVars, listVars, lifeVars, matVars, rectVars, groupVars, engineVars>>

QueryPlace(x, y) == PlaceCall(x, y) /\ ColUnchanged

QueryResize(w, h) == ResizeCall(w, h) /\ ColUnchanged

QuerySetTile(solid, t) == SetTileCall(solid, t) /\ ColUnchanged

QueryOverlap(a, b) == OverlapCall(a, b) /\ ColUnchanged

QueryCollide(tag, d) == CollideCall(tag, d) /\ ColUnchanged

QueryCollideAll(tag, d) == CollideAllCall(tag, d) /\ ColUnchanged

QueryCheck(tag, d) == CheckCall(tag, d) /\ ColUnchanged

QueryCollides(tags, d) == CollidesCall(tags, d) /\ ColUnchanged

QueryNext ==
    \/ \E x \in Coords, y \in Coords : QueryPlace(x, y)
    \/ \E w \in Sizes, h \in Sizes : QueryResize(w, h)
    \/ \E solid \in BOOLEAN, t \in TileCoords : QuerySetTile(solid, t)
    \/ \E a \in {"boxA", "grid"}, b \in {"boxA", "boxB", "grid"} : QueryOverlap(a, b)
    \/ \E tag \in QueryTags, d \in Deltas : QueryCollide(tag, d)
    \/ \E tag \in QueryTags, d \in Deltas : QueryCollideAll(tag, d)
    \/ \E tag \in QueryTags, d \in Deltas : QueryCheck(tag, d)
    \/ \E tags \in {<<"none", "solid">>, <<"solid", "coin">>}, d \in Deltas :
          QueryCollides(tags, d)

RegistryRegister(fromType, toType, test) ==
    RegisterCall(fromType, toType, test) /\ ColUnchanged

RegistryOverlap(a, b) == OverlapCall(a, b) /\ ColUnchanged

RegistryNext ==
    \/ \E fromType \in Types, toType \in Types :
          RegistryRegister(fromType, toType, "leftOf")
    \/ \E a \in ShapeIds, b \in ShapeIds : RegistryOverlap(a, b)

\* the colliders when the engine has started
ColInit ==
    /\ overlaptest = DefaultOverlapTests
    /\ shapes = ShapesInit
    /\ colLast = ColOp("new", Null, Null, <<0, 0>>,
                       [threw |-> FALSE, value |-> FALSE, hits |-> <<>>])

(***************************************************************************)
(* Scene, Entity, Collider: the tag index                                  *)
(***************************************************************************)
\* the entities and the colliders a game creates, and the tags it gives them
Entities == {"e1", "e2"}

Components == {"c1", "c2"}

SceneTags == {"solid", "coin"}

\* Array.indexOf, counted from 1: 0 when x is not in s
IndexOf(s, x) ==
    IF \E i \in 1..Len(s) : s[i] = x
    THEN CHOOSE i \in 1..Len(s) : s[i] = x /\ \A j \in 1..(i - 1) : s[j] # x
    ELSE 0

\* Array.splice(i, 1), counted from 1
SpliceOut(s, i) == SubSeq(s, 1, i - 1) \o SubSeq(s, i + 1, Len(s))

Elements(s) == {s[i] : i \in 1..Len(s)}

\* the collider the calls are made on; the other one stays as constructed
Loose == {"c1"}

\* new Scene(), new Entity(), new Collider(): no entity is in the scene and
\* the index has no key; e2 was given the collider c2 tagged "solid", c1 is
\* neither attached nor tagged
WorldInit ==
    [ scene      |-> [e \in Entities |-> FALSE],
      components |-> [e \in Entities |-> IF e = "e2" THEN <<"c2">> ELSE <<>>],
      entity     |-> [c \in Components |-> IF c = "c2" THEN "e2" ELSE Null],
      tags       |-> [c \in Components |-> IF c = "c2" THEN <<"solid">> ELSE <<>>],
      colliders  |-> <<>>,
      threw      |-> FALSE ]

\* whether component.entity is set and that entity's scene is the scene
InScene(w, c) == w.entity[c] # Null /\ w.scene[w.entity[c]]

TrackCollider(w, c, tag) ==
    LET index == w.colliders
        held  == IF tag \in DOMAIN index THEN index[tag] ELSE <<>>
    IN  [w EXCEPT !.colliders =
            [t \in DOMAIN index \cup {tag} |->
                IF t = tag THEN Append(held, c) ELSE index[t]]]

\* _untrackCollider that leaves the emptied list under its key
UntrackColliderKeep(w, c, tag) ==
    LET index == w.colliders
    IN  IF tag \notin DOMAIN index THEN w
        ELSE LET i == IndexOf(index[tag], c)
             IN  IF i = 0 THEN w
                 ELSE [w EXCEPT !.colliders =
                          [index EXCEPT ![tag] = SpliceOut(index[tag], i)]]

UntrackCollider(w, c, tag) ==
    LET index == w.colliders
    IN  IF tag \notin DOMAIN index THEN w
        ELSE LET i == IndexOf(index[tag], c)
             IN  IF i = 0 THEN w
                 ELSE LET rest == SpliceOut(index[tag], i)
                      IN  IF Len(rest) <= 0
                          THEN [w EXCEPT !.colliders =
                                   [t \in DOMAIN index \ {tag} |-> index[t]]]
                          ELSE [w EXCEPT !.colliders =
                                   [index EXCEPT ![tag] = rest]]

\* for (const tag of component.tags) this._trackCollider(component, tag)
RECURSIVE TrackTags(_, _, _)
TrackTags(w, c, i) ==
    IF i > Len(w.tags[c]) THEN w
    ELSE TrackTags(TrackCollider(w, c, w.tags[c][i]), c, i + 1)

RECURSIVE UntrackTags(_, _, _)
UntrackTags(w, c, i) ==
    IF i > Len(w.tags[c]) THEN w
    ELSE UntrackTags(UntrackCollider(w, c, w.tags[c][i]), c, i + 1)

TrackComponent(w, c) ==
    IF ~InScene(w, c) THEN [w EXCEPT !.threw = TRUE]
    ELSE TrackTags(w, c, 1)

UntrackComponent(w, c) == UntrackTags(w, c, 1)

\* entity.components.each((c) => this._trackComponent(c)): the live slots in
\* order, up to the first one that raises
RECURSIVE TrackEach(_, _, _)
TrackEach(w, slots, i) ==
    IF i > Len(slots) THEN w
    ELSE IF slots[i] = Null THEN TrackEach(w, slots, i + 1)
    ELSE LET w1 == TrackComponent(w, slots[i])
         IN  IF w1.threw THEN w1 ELSE TrackEach(w1, slots, i + 1)

RECURSIVE UntrackEach(_, _, _)
UntrackEach(w, slots, i) ==
    IF i > Len(slots) THEN w
    ELSE IF slots[i] = Null THEN UntrackEach(w, slots, i + 1)
    ELSE UntrackEach(UntrackComponent(w, slots[i]), slots, i + 1)

SceneAdd(w, e) ==
    LET w1 == [w EXCEPT !.scene[e] = TRUE, !.threw = FALSE]
    IN  TrackEach(w1, w1.components[e], 1)

SceneRemove(w, e) ==
    LET w1 == UntrackEach([w EXCEPT !.threw = FALSE], w.components[e], 1)
    IN  [w1 EXCEPT !.scene[e] = FALSE]

\* ObjectList.remove on the component list: the first slot holding c is set
\* to null
SlotsRemove(slots, c) ==
    LET i == IndexOf(slots, c)
    IN  IF i = 0 THEN slots ELSE [slots EXCEPT ![i] = Null]

EntityAdd(w, e, c) ==
    LET w1 == [w EXCEPT !.components[e] = Append(@, c), !.threw = FALSE]
    IN  IF w1.entity[c] # Null THEN [w1 EXCEPT !.threw = TRUE]
        ELSE LET w2 == [w1 EXCEPT !.entity[c] = e]
             IN  IF w2.scene[e] THEN TrackComponent(w2, c) ELSE w2

EntityRemove(w, e, c) ==
    LET w1 == [w EXCEPT !.components[e] = SlotsRemove(@, c),
                        !.entity[c] = Null,
                        !.threw = FALSE]
    IN  IF w1.scene[e] THEN UntrackComponent(w1, c) ELSE w1

ColliderTag(w, c, tag) ==
    LET w1 == [w EXCEPT !.tags[c] = Append(@, tag), !.threw = FALSE]
    IN  IF InScene(w1, c) THEN TrackCollider(w1, c, tag) ELSE w1

ColliderUntag(w, c, tag) ==
    LET i == IndexOf(w.tags[c], tag)
        w0 == [w EXCEPT !.threw = FALSE]
    IN  IF i = 0 THEN w0
        ELSE LET w1 == [w0 EXCEPT !.tags[c] = SpliceOut(@, i)]
             IN  IF InScene(w1, c) THEN UntrackCollider(w1, c, tag) ELSE w1

\* Scene.allCollidersInTag, of the scene of w
CollidersInTag(w, tag) ==
    IF tag \in DOMAIN w.colliders THEN w.colliders[tag] ELSE <<>>

\* the longest component list and index list that is followed; a collider
\* is given as many tags as there are, a tag twice included
MaxSlots == 2

Bounded(w) ==
    /\ \A e \in Entities : Len(w.components[e]) <= MaxSlots
    /\ \A c \in Components : Len(w.tags[c]) <= Cardinality(SceneTags)
    /\ \A t \in DOMAIN w.colliders : Len(w.colliders[t]) <= MaxSlots

\* the call made, and the keys it took out of the index
SceneOp(name, w) ==
    [op |-> name, dropped |-> DOMAIN world.colliders \ DOMAIN w.colliders]

SceneCall(name, w) ==
    /\ Bounded(w)
    /\ world' = w
    /\ sceneLast' = SceneOp(name, w)

SceneUnchanged ==
    UNCHANGED <<gfxVars, physVars, colVars, listVars, lifeVars, matVars, rectVars, groupVars, engineVars>>

IndexSceneAdd(e) ==
    SceneCall("Scene.add", SceneAdd(world, e)) /\ SceneUnchanged

IndexSceneRemove(e) ==
    SceneCall("Scene.remove", SceneRemove(world, e)) /\ SceneUnchanged

IndexEntityAdd(e, c) ==
    SceneCall("Entity.add", EntityAdd(world, e, c)) /\ SceneUnchanged

IndexEntityRemove(e, c) ==
    SceneCall("Entity.remove", EntityRemove(world, e, c)) /\ SceneUnchanged

IndexTag(c, tag) ==
    SceneCall("tag", ColliderTag(world, c, tag)) /\ SceneUnchanged

IndexUntag(c, tag) ==
    SceneCall("untag", ColliderUntag(world, c, tag)) /\ SceneUnchanged

IndexNext ==
    \/ \E e \in Entities : IndexSceneAdd(e)
    \/ \E e \in Entities : IndexSceneRemove(e)
    \/ \E e \in Entities, c \in Loose : IndexEntityAdd(e, c)
    \/ \E e \in Entities, c \in Loose : IndexEntityRemove(e, c)
    \/ \E c \in Loose, tag \in SceneTags : IndexTag(c, tag)
    \/ \E c \in Loose, tag \in SceneTags : IndexUntag(c, tag)

SceneInit ==
    /\ world = WorldInit
    /\ sceneLast = [op |-> "new", dropped |-> {}]

(***************************************************************************)
(* ObjectList                                                              *)
(***************************************************************************)
\* the objects a game keeps in a list, and what the compare function of
\* sort orders them by
Objects == {"a", "b", "c"}

Order == [a |-> 1, b |-> 0, c |-> 0]

Compare(x, y) == Order[x] - Order[y]

\* new ObjectList(): unsorted and dirty are not set, which reads as false
NewList ==
    [ objects    |-> <<>>,
      count      |-> 0,
      unsorted   |-> FALSE,
      dirty      |-> FALSE,
      iterating  |-> FALSE,
      moveAfters |-> <<>> ]

\* this.objects[i], i counted from 0: undefined beyond the array reads as null
Slot(objects, i) == IF i + 1 \in 1..Len(objects) THEN objects[i + 1] ELSE Null

Live(objects) == SelectSeq(objects, LAMBDA x : x # Null)

Add(l, o) ==
    [l EXCEPT !.objects = Append(@, o), !.count = @ + 1, !.unsorted = TRUE]

Contains(l, o) == o # Null /\ IndexOf(l.objects, o) > 0

\* remove that takes the slot out of the array
RemoveSplice(l, o) ==
    LET i == IndexOf(l.objects, o)
    IN  IF i > 0
        THEN [list    |-> [l EXCEPT !.objects = SpliceOut(@, i),
                                    !.count = @ - 1,
                                    !.dirty = TRUE],
              removed |-> TRUE]
        ELSE [list |-> l, removed |-> FALSE]

\* ObjectList.remove: the list afterwards, and what it returns
Remove(l, o) ==
    LET i == IndexOf(l.objects, o)
    IN  IF i > 0
        THEN [list    |-> [l EXCEPT !.objects[i] = Null,
                                    !.count = @ - 1,
                                    !.dirty = TRUE],
              removed |-> TRUE]
        ELSE [list |-> l, removed |-> FALSE]

\* Array.splice(index, 0, o), index counted from 0: an index past the end
\* appends
SpliceIn(objects, index, o) ==
    LET k == IF index > Len(objects) THEN Len(objects) ELSE index
    IN  SubSeq(objects, 1, k) \o <<o>> \o SubSeq(objects, k + 1, Len(objects))

\* if (this.remove(obj)) this.objects.splice(index, 0, obj)
MoveNow(l, o, index) ==
    LET r == Remove(l, o)
    IN  IF r.removed
        THEN [r.list EXCEPT !.objects = SpliceIn(@, index, o)]
        ELSE r.list

MoveAfter(l, o, index) ==
    IF l.iterating
    THEN [l EXCEPT !.moveAfters = Append(@, <<o, index>>)]
    ELSE MoveNow(l, o, index)

Clear(l) ==
    [l EXCEPT !.objects = [i \in 1..Len(@) |-> Null], !.count = 0, !.dirty = TRUE]

\* clean that empties the array whenever the list is dirty
CleanAll(l) == IF l.dirty THEN [l EXCEPT !.objects = <<>>] ELSE l

Clean(l) ==
    IF l.dirty
    THEN IF l.count <= 0
         THEN [l EXCEPT !.objects = <<>>]
         ELSE [l EXCEPT !.objects = Live(@)]
    ELSE l

\* the inner loop of sort that also exchanges objects that compare equal
RECURSIVE SortInsertEqual(_, _)
SortInsertEqual(objects, j) ==
    IF j > 0 /\ objects[j] # Null /\ objects[j + 1] # Null
             /\ Compare(objects[j], objects[j + 1]) >= 0
    THEN SortInsertEqual([objects EXCEPT ![j] = objects[j + 1],
                                         ![j + 1] = objects[j]], j - 1)
    ELSE objects

\* the inner loop of sort with objects[j - 1] and objects[j] at j and j + 1
RECURSIVE SortInsert(_, _)
SortInsert(objects, j) ==
    IF j > 0 /\ objects[j] # Null /\ objects[j + 1] # Null
             /\ Compare(objects[j], objects[j + 1]) > 0
    THEN SortInsert([objects EXCEPT ![j] = objects[j + 1], ![j + 1] = objects[j]],
                    j - 1)
    ELSE objects

RECURSIVE SortFrom(_, _)
SortFrom(objects, i) ==
    IF i >= Len(objects) - 1 THEN objects
    ELSE SortFrom(SortInsert(objects, i + 1), i + 1)

Sort(l) ==
    IF l.unsorted
    THEN [l EXCEPT !.objects = SortFrom(@, 0), !.unsorted = FALSE]
    ELSE l

\* for (const [obj, index] of this._moveAfters) ...
RECURSIVE ApplyMoves(_, _)
ApplyMoves(l, moves) ==
    IF moves = <<>> THEN l
    ELSE ApplyMoves(MoveNow(l, moves[1][1], moves[1][2]), Tail(moves))

\* each(), after its loop
EachFinish(l) ==
    LET l1 == [l EXCEPT !.iterating = FALSE]
    IN  IF Len(l1.moveAfters) > 0
        THEN Clean([ApplyMoves(l1, l1.moveAfters) EXCEPT !.moveAfters = <<>>,
                                                         !.dirty = TRUE])
        ELSE l1

\* the loop of each(): the first slot from i on, below the length taken at
\* the start, that holds an object; n when there is none
RECURSIVE NextLive(_, _, _)
NextLive(objects, i, n) ==
    IF i >= n THEN n
    ELSE IF Slot(objects, i) # Null THEN i
    ELSE NextLive(objects, i + 1, n)

\* the longest array, and the most moves in the queue, that are followed
MaxLen == 3

MaxQueue == 1

\* the indices moveAfter is called with
MoveIndices == {0, 2}

Idle == frames = <<>>

Top == frames[Len(frames)]

InCallback == frames # <<>> /\ Top.cb

\* a call can be made between traversals and from inside a callback
Open == Idle \/ InCallback

ListBounded(l) ==
    /\ Len(l.objects) <= MaxLen
    /\ Len(l.moveAfters) <= MaxQueue
    /\ l.count >= 0 - MaxLen

Snapshot(l) == [objects |-> l.objects, count |-> l.count]

NoSnapshot == [objects |-> <<>>, count |-> 0]

AddCall(o) ==
    /\ Open
    /\ ListBounded(Add(list, o))
    /\ list' = Add(list, o)
    /\ UNCHANGED frames

RemoveCall(o) ==
    /\ Open
    /\ list' = Remove(list, o).list
    /\ UNCHANGED frames

MoveAfterCall(o, index) ==
    /\ Open
    /\ ListBounded(MoveAfter(list, o, index))
    /\ list' = MoveAfter(list, o, index)
    /\ UNCHANGED frames

ClearCall ==
    /\ Idle
    /\ list' = Clear(list)
    /\ UNCHANGED frames

CleanCall ==
    /\ Idle
    /\ list' = Clean(list)
    /\ UNCHANGED frames

SortCall ==
    /\ Idle
    /\ list' = Sort(list)
    /\ UNCHANGED frames

\* each(callback) up to its loop
EachBeginCall ==
    /\ Idle
    /\ frames' = Append(frames, [i |-> 0, n |-> Len(list.objects), cb |-> FALSE])
    /\ list' = [list EXCEPT !.iterating = TRUE]

\* the loop reaches a slot that holds an object and calls the callback
EachVisitCall ==
    /\ frames # <<>> /\ ~Top.cb
    /\ NextLive(list.objects, Top.i, Top.n) < Top.n
    /\ frames' = [frames EXCEPT ![Len(frames)] =
                      [@ EXCEPT !.i = NextLive(list.objects, Top.i, Top.n),
                                !.cb = TRUE]]
    /\ UNCHANGED list

\* the callback returns: anything but false goes on with the next slot,
\* false leaves the loop
EachReturnCall(continue) ==
    /\ InCallback
    /\ frames' = [frames EXCEPT ![Len(frames)] =
                      [@ EXCEPT !.i = IF continue THEN @ + 1 ELSE Top.n,
                                !.cb = FALSE]]
    /\ UNCHANGED list

\* the loop finds no further object: each() finishes
EachEndCall ==
    /\ frames # <<>> /\ ~Top.cb
    /\ NextLive(list.objects, Top.i, Top.n) = Top.n
    /\ frames' = SubSeq(frames, 1, Len(frames) - 1)
    /\ list' = EachFinish(list)

\* the call made, its argument, what it returned and, for a remove and for
\* the clean() that follows it, the list before the remove
ListOp(name, arg, result, before) ==
    [op |-> name, arg |-> arg, result |-> result, before |-> before]

Did(name) == listLast' = ListOp(name, Null, FALSE, NoSnapshot)

ListUnchanged ==
    UNCHANGED <<gfxVars, physVars, colVars, sceneVars, lifeVars, matVars, rectVars, groupVars, engineVars>>

ListAdd(o) == AddCall(o) /\ Did("add") /\ UNCHANGED trace /\ ListUnchanged

ListRemove(o) ==
    /\ RemoveCall(o)
    /\ listLast' = ListOp("remove", o, Remove(list, o).removed, Snapshot(list))
    /\ UNCHANGED trace
    /\ ListUnchanged

ListMoveAfter(o, index) ==
    MoveAfterCall(o, index) /\ Did("moveAfter") /\ UNCHANGED trace /\ ListUnchanged

ListClear == ClearCall /\ Did("clear") /\ UNCHANGED trace /\ ListUnchanged

\* clean(); result tells that it follows a remove that took an object out
ListClean ==
    /\ CleanCall
    /\ listLast' = IF listLast.op = "remove" /\ listLast.result
                    THEN ListOp("clean", listLast.arg, TRUE, listLast.before)
                    ELSE ListOp("clean", Null, FALSE, NoSnapshot)
    /\ UNCHANGED trace
    /\ ListUnchanged

\* sort(compare); result tells that the list was unsorted
ListSort ==
    /\ SortCall
    /\ listLast' = ListOp("sort", Null, list.unsorted, Snapshot(list))
    /\ UNCHANGED trace
    /\ ListUnchanged

ListEachBegin == EachBeginCall /\ Did("each") /\ UNCHANGED trace /\ ListUnchanged

ListEachVisit == EachVisitCall /\ Did("callback") /\ UNCHANGED trace /\ ListUnchanged

ListEachReturn(continue) ==
    EachReturnCall(continue) /\ Did("return") /\ UNCHANGED trace /\ ListUnchanged

ListEachEnd == EachEndCall /\ Did("eachEnd") /\ UNCHANGED trace /\ ListUnchanged

ListNext ==
    \/ \E o \in Objects : ListAdd(o)
    \/ \E o \in Objects : ListRemove(o)
    \/ \E o \in Objects, index \in MoveIndices : ListMoveAfter(o, index)
    \/ ListClear
    \/ ListClean
    \/ ListSort
    \/ ListEachBegin
    \/ ListEachVisit
    \/ \E continue \in BOOLEAN : ListEachReturn(continue)
    \/ ListEachEnd

\* the deepest nesting of each() calls that is followed
MaxDepth == 2

\* each(callback) called by the callback of an each() on the same list
NestedBeginCall ==
    /\ InCallback
    /\ Len(frames) < MaxDepth
    /\ frames' = Append(frames, [i |-> 0, n |-> Len(list.objects), cb |-> FALSE])
    /\ list' = [list EXCEPT !.iterating = TRUE]

NestedEachBegin == NestedBeginCall /\ Did("each") /\ UNCHANGED trace /\ ListUnchanged

\* traversals whose callbacks add, remove, move and traverse again
NestedNext ==
    \/ \E o \in Objects : ListAdd(o)
    \/ \E o \in Objects : ListRemove(o)
    \/ \E o \in Objects, index \in MoveIndices : ListMoveAfter(o, index)
    \/ ListClean
    \/ ListEachBegin
    \/ NestedEachBegin
    \/ ListEachVisit
    \/ \E continue \in BOOLEAN : ListEachReturn(continue)
    \/ ListEachEnd

\* the calls made between traversals
EditNext ==
    \/ \E o \in Objects : ListAdd(o)
    \/ \E o \in Objects : ListRemove(o)
    \/ \E o \in Objects, index \in MoveIndices : ListMoveAfter(o, index)
    \/ ListClear
    \/ ListClean
    \/ ListSort

\* what a traversal has done so far: the array when it started, the slots
\* the callback was called on with the object passed, and the slots that
\* were emptied ahead of the loop
NoTrace == [start |-> <<>>, visited |-> <<>>, gone |-> {}, done |-> FALSE]

TraversalUnchanged == UNCHANGED listLast /\ ListUnchanged

TraversalAdd(o) == Idle /\ AddCall(o) /\ UNCHANGED trace /\ TraversalUnchanged

\* remove, between traversals or by the callback; the callback emptying a
\* slot the loop has not reached yet is noted
TraversalRemove(o) ==
    /\ RemoveCall(o)
    /\ trace' = IF InCallback /\ IndexOf(list.objects, o) - 1 > Top.i
                 THEN [trace EXCEPT !.gone = @ \cup {IndexOf(list.objects, o) - 1}]
                 ELSE trace
    /\ TraversalUnchanged

TraversalClean == CleanCall /\ UNCHANGED trace /\ TraversalUnchanged

TraversalBegin ==
    /\ EachBeginCall
    /\ trace' = [start |-> list.objects, visited |-> <<>>, gone |-> {},
                  done |-> FALSE]
    /\ TraversalUnchanged

TraversalVisit ==
    /\ EachVisitCall
    /\ trace' = [trace EXCEPT !.visited =
                    Append(@, <<NextLive(list.objects, Top.i, Top.n),
                                Slot(list.objects,
                                     NextLive(list.objects, Top.i, Top.n))>>)]
    /\ TraversalUnchanged

TraversalReturn == EachReturnCall(TRUE) /\ UNCHANGED trace /\ TraversalUnchanged

TraversalEnd ==
    /\ EachEndCall
    /\ trace' = [trace EXCEPT !.done = TRUE]
    /\ TraversalUnchanged

TraversalStep == TraversalVisit \/ TraversalReturn \/ TraversalEnd

TraversalNext ==
    \/ \E o \in Objects : TraversalAdd(o)
    \/ \E o \in Objects : TraversalRemove(o)
    \/ TraversalClean
    \/ TraversalBegin
    \/ TraversalVisit
    \/ TraversalReturn
    \/ TraversalEnd

ListInit ==
    /\ list = NewList
    /\ frames = <<>>
    /\ trace = NoTrace
    /\ listLast = ListOp("new", Null, FALSE, NoSnapshot)

(***************************************************************************)
(* Scene: the life of an entity                                            *)
(***************************************************************************)
\* the depths the game gives an entity
Depths == {0, 1}

\* no traversal of Scene.update is under way
NoVisit == [on |-> FALSE, i |-> 0, n |-> 0, at |-> Null, pos |-> "idle"]

\* new Scene() and new Entity(): the entity list is empty, no entity is in
\* the scene, created or started, every entity is active and at depth 0, and
\* the recycle bucket is empty; hooks holds the hooks the last call invoked
StageInit ==
    [ entities  |-> NewList,
      scene     |-> [e \in Entities |-> FALSE],
      isCreated |-> [e \in Entities |-> FALSE],
      isStarted |-> [e \in Entities |-> FALSE],
      active    |-> [e \in Entities |-> TRUE],
      depth     |-> [e \in Entities |-> 0],
      cache     |-> <<>>,
      visit     |-> NoVisit,
      hooks     |-> <<>> ]

Hook(name, e) == [hook |-> name, on |-> e]

Invoke(st, name, e) == [st EXCEPT !.hooks = Append(@, Hook(name, e))]

\* Scene.add that calls created() whether or not the entity was created
AddEntityCreating(st, e) ==
    LET placed  == [st EXCEPT !.scene[e] = TRUE, !.entities = Add(@, e)]
        created == Invoke([placed EXCEPT !.isCreated[e] = TRUE], "created", e)
    IN  Invoke(created, "added", e)

\* Scene.add of an entity without components, in no group
AddEntity(st, e) ==
    LET placed  == [st EXCEPT !.scene[e] = TRUE, !.entities = Add(@, e)]
        created == IF ~placed.isCreated[e]
                   THEN Invoke([placed EXCEPT !.isCreated[e] = TRUE], "created", e)
                   ELSE placed
    IN  Invoke(created, "added", e)

\* Scene.remove that leaves isStarted as it is
RemoveEntityKeepStarted(st, e) ==
    LET told == Invoke(st, "removed", e)
    IN  [told EXCEPT !.scene[e] = FALSE,
                     !.entities = Remove(@, e).list]

\* Scene.remove
RemoveEntity(st, e) ==
    LET told == Invoke(st, "removed", e)
    IN  [told EXCEPT !.isStarted[e] = FALSE,
                     !.scene[e] = FALSE,
                     !.entities = Remove(@, e).list]

\* Scene.recycle into the one bucket of the model
Recycle(st, e) ==
    LET left == RemoveEntity(st, e)
    IN  Invoke([left EXCEPT !.cache = Append(@, e)], "recycled", e)

\* Scene.recreate: null, and nothing done, when the bucket is empty
Recreate(st) ==
    IF Len(st.cache) > 0
    THEN AddEntity([st EXCEPT !.cache = Tail(@)], st.cache[1])
    ELSE st

\* set depth(val): ignored outside a scene and when the depth is the same
SetDepth(st, e, val) ==
    IF st.scene[e] /\ st.depth[e] # val
    THEN [st EXCEPT !.depth[e] = val, !.entities.unsorted = TRUE]
    ELSE st

\* (a, b) => b.depth - a.depth
CompareDepth(depth, a, b) == depth[b] - depth[a]

\* the inner loop of ObjectList.sort under the comparator of Scene.render
RECURSIVE DepthInsert(_, _, _)
DepthInsert(objects, j, depth) ==
    IF j > 0 /\ objects[j] # Null /\ objects[j + 1] # Null
             /\ CompareDepth(depth, objects[j], objects[j + 1]) > 0
    THEN DepthInsert([objects EXCEPT ![j] = objects[j + 1], ![j + 1] = objects[j]],
                     j - 1, depth)
    ELSE objects

RECURSIVE DepthSortFrom(_, _, _)
DepthSortFrom(objects, i, depth) ==
    IF i >= Len(objects) - 1 THEN objects
    ELSE DepthSortFrom(DepthInsert(objects, i + 1, depth), i + 1, depth)

\* this.entities.sort((a, b) => b.depth - a.depth)
DepthSort(l, depth) ==
    IF l.unsorted
    THEN [l EXCEPT !.objects = DepthSortFrom(@, 0, depth), !.unsorted = FALSE]
    ELSE l

RECURSIVE InvokeEach(_, _, _)
InvokeEach(st, name, es) ==
    IF es = <<>> THEN st ELSE InvokeEach(Invoke(st, name, es[1]), name, Tail(es))

\* Scene.render with the default renderer: the list is sorted, then every
\* entity of the list is rendered
Render(st) ==
    LET sorted == [st EXCEPT !.entities = DepthSort(@, st.depth)]
    IN  InvokeEach(sorted, "render", Live(sorted.entities.objects))

\* Scene.update, the callback of entities.each after started() has returned
\* or was not called: update() of an active, started entity is entered, or
\* the loop goes on
AfterStarted(st, e, k) ==
    IF st.active[e] /\ st.isStarted[e]
    THEN Invoke([st EXCEPT !.visit.i = k, !.visit.at = e, !.visit.pos = "update"],
                "update", e)
    ELSE [st EXCEPT !.visit.i = k + 1, !.visit.at = Null, !.visit.pos = "loop"]

\* Scene.update, the callback of entities.each entered on the entity at k
VisitEntity(st, e, k) ==
    IF ~st.isStarted[e]
    THEN Invoke([st EXCEPT !.isStarted[e] = TRUE,
                           !.visit.i = k, !.visit.at = e, !.visit.pos = "started"],
                "started", e)
    ELSE AfterStarted(st, e, k)

\* Scene.update, a hook of the entity under the callback returns
ReturnFrom(st) ==
    IF st.visit.pos = "started"
    THEN AfterStarted(st, st.visit.at, st.visit.i)
    ELSE [st EXCEPT !.visit.i = @ + 1, !.visit.at = Null, !.visit.pos = "loop"]

\* Scene.update after the loop of entities.each: the list is cleaned
FinishUpdate(st) == [st EXCEPT !.entities = Clean(@), !.visit = NoVisit]

\* game code runs: between the calls of the engine, or inside started() or
\* update() of an entity
GameRuns == ~stage.visit.on \/ stage.visit.pos \in {"started", "update"}

Quiet(st) == [st EXCEPT !.hooks = <<>>]

\* what an observer has counted: the entities ever added, the entities in
\* the scene in the order of their last add, the calls of started() in the
\* period an entity is in, whether update() was called in it, and whether
\* the period began during the traversal under way
WatchInit ==
    [ seen    |-> {},
      order   |-> <<>>,
      started |-> [e \in Entities |-> 0],
      updated |-> [e \in Entities |-> FALSE],
      late    |-> [e \in Entities |-> FALSE] ]

Without(s, e) == SelectSeq(s, LAMBDA x : x # e)

Entered(w, e, during) ==
    [w EXCEPT !.seen = @ \cup {e},
              !.order = Append(Without(@, e), e),
              !.started[e] = 0,
              !.updated[e] = FALSE,
              !.late[e] = during]

Left(w, e) == [w EXCEPT !.order = Without(@, e)]

\* the calls of started() counted up to two
Heard(w, hooks) ==
    [w EXCEPT !.started = [e \in Entities |->
                              IF Hook("started", e) \in Elements(hooks) /\ @[e] < 2
                              THEN @[e] + 1 ELSE @[e]],
              !.updated = [e \in Entities |->
                              @[e] \/ Hook("update", e) \in Elements(hooks)]]

LifeOp(name, e) == [op |-> name, e |-> e]

LifeUnchanged ==
    UNCHANGED <<gfxVars, physVars, colVars, sceneVars, listVars, matVars, rectVars, groupVars, engineVars>>

\* Scene.add, of an entity that is in no scene unless any is TRUE
LifeAdd(e, any) ==
    /\ GameRuns
    /\ any \/ ~stage.scene[e]
    /\ Len(stage.entities.objects) < MaxLen
    /\ stage' = AddEntity(Quiet(stage), e)
    /\ watch' = Entered(watch, e, stage.visit.on)
    /\ lifeLast' = LifeOp("add", e)
    /\ LifeUnchanged

\* Scene.remove, of an entity that is in the scene unless any is TRUE
LifeRemove(e, any) ==
    /\ GameRuns
    /\ any \/ stage.scene[e]
    /\ stage' = RemoveEntity(Quiet(stage), e)
    /\ watch' = Left(watch, e)
    /\ lifeLast' = LifeOp("remove", e)
    /\ LifeUnchanged

LifeRecycle(e) ==
    /\ GameRuns
    /\ Len(stage.cache) < MaxLen
    /\ stage' = Recycle(Quiet(stage), e)
    /\ watch' = Left(watch, e)
    /\ lifeLast' = LifeOp("recycle", e)
    /\ LifeUnchanged

LifeRecreate ==
    /\ GameRuns
    /\ Len(stage.entities.objects) < MaxLen
    /\ stage' = Recreate(Quiet(stage))
    /\ watch' = IF Len(stage.cache) > 0
                THEN Entered(watch, stage.cache[1], stage.visit.on)
                ELSE watch
    /\ lifeLast' = LifeOp("recreate", IF Len(stage.cache) > 0 THEN stage.cache[1] ELSE Null)
    /\ LifeUnchanged

LifeSetDepth(e, val) ==
    /\ GameRuns
    /\ stage' = SetDepth(Quiet(stage), e, val)
    /\ stage' # Quiet(stage)
    /\ lifeLast' = LifeOp("depth", e)
    /\ UNCHANGED watch
    /\ LifeUnchanged

\* entity.depth = val, by an entity in the scene or out of it
LifeAssignDepth(e, val) ==
    /\ GameRuns
    /\ stage' = SetDepth(Quiet(stage), e, val)
    /\ lifeLast' = LifeOp("depth", e)
    /\ UNCHANGED watch
    /\ LifeUnchanged

\* Scene.update is called and entities.each takes the length of the list
LifeUpdateBegin ==
    /\ ~stage.visit.on
    /\ stage' = [Quiet(stage) EXCEPT !.visit =
                    [on |-> TRUE, i |-> 0, n |-> Len(stage.entities.objects),
                     at |-> Null, pos |-> "loop"]]
    /\ lifeLast' = LifeOp("update", Null)
    /\ UNCHANGED watch
    /\ LifeUnchanged

AtLoop == stage.visit.on /\ stage.visit.pos = "loop"

NextVisited == NextLive(stage.entities.objects, stage.visit.i, stage.visit.n)

LifeUpdateVisit ==
    /\ AtLoop
    /\ NextVisited < stage.visit.n
    /\ stage' = VisitEntity(Quiet(stage), Slot(stage.entities.objects, NextVisited),
                            NextVisited)
    /\ watch' = Heard(watch, stage'.hooks)
    /\ lifeLast' = LifeOp("visit", Slot(stage.entities.objects, NextVisited))
    /\ LifeUnchanged

LifeUpdateReturn ==
    /\ stage.visit.on
    /\ stage.visit.pos \in {"started", "update"}
    /\ stage' = ReturnFrom(Quiet(stage))
    /\ watch' = Heard(watch, stage'.hooks)
    /\ lifeLast' = LifeOp("return", stage.visit.at)
    /\ LifeUnchanged

LifeUpdateEnd ==
    /\ AtLoop
    /\ NextVisited >= stage.visit.n
    /\ stage' = FinishUpdate(Quiet(stage))
    /\ watch' = [watch EXCEPT !.late = [e \in Entities |-> FALSE]]
    /\ lifeLast' = LifeOp("updated", Null)
    /\ LifeUnchanged

LifeRender ==
    /\ ~stage.visit.on
    /\ stage' = Render(Quiet(stage))
    /\ lifeLast' = LifeOp("render", Null)
    /\ UNCHANGED watch
    /\ LifeUnchanged

\* every call that adds, removes, recycles or recreates, made between the
\* calls of the engine
LifeNext ==
    \/ \E e \in Entities : LifeAdd(e, TRUE)
    \/ \E e \in Entities : LifeRemove(e, TRUE)
    \/ \E e \in Entities : LifeRecycle(e)
    \/ LifeRecreate

\* Scene.update with entities that add and remove entities in their hooks
UpdateNext ==
    \/ \E e \in Entities : LifeAdd(e, FALSE)
    \/ \E e \in Entities : LifeRemove(e, FALSE)
    \/ LifeUpdateBegin
    \/ LifeUpdateVisit
    \/ LifeUpdateReturn
    \/ LifeUpdateEnd

\* frames of Scene.update and Scene.render with entities that change depth
RenderNext ==
    \/ \E e \in Entities : LifeAdd(e, FALSE)
    \/ \E e \in Entities : LifeRemove(e, FALSE)
    \/ \E e \in Entities, val \in Depths : LifeSetDepth(e, val)
    \/ LifeUpdateBegin
    \/ LifeUpdateVisit
    \/ LifeUpdateReturn
    \/ LifeUpdateEnd
    \/ LifeRender

\* entities that are given a depth in their constructor and later
DepthNext ==
    \/ \E e \in Entities : LifeAdd(e, FALSE)
    \/ \E e \in Entities : LifeRemove(e, FALSE)
    \/ \E e \in Entities, val \in Depths : LifeAssignDepth(e, val)
    \/ LifeUpdateBegin
    \/ LifeUpdateVisit
    \/ LifeUpdateReturn
    \/ LifeUpdateEnd
    \/ LifeRender

LifeInit ==
    /\ stage = StageInit
    /\ watch = WatchInit
    /\ lifeLast = LifeOp("new", Null)

(***************************************************************************)
(* Matrix                                                                  *)
(***************************************************************************)
\* the largest entry the game writes into a matrix
MaxEntry == 1

\* the nine entries, mat[0] .. mat[8] at 1 .. 9, each standing for
\* mat[i] / den: the entries are whole numbers until invert divides them
MatrixOf(entries, den) == [mat |-> entries, den |-> den]

\* Matrix.identity, which the constructor calls
Identity == MatrixOf(<<1, 0, 0, 0, 1, 0, 0, 0, 1>>, 1)

\* Matrix.scaler
Scaler(m, s) == [m EXCEPT !.mat = [i \in 1..9 |-> m.mat[i] * s]]

\* the inverse computed with the division left out: 1.0 / 0 is Infinity, and
\* the entries become Infinity or NaN
InvertAlways(m) ==
    LET a00 == m.mat[1]  a01 == m.mat[2]  a02 == m.mat[3]
        a10 == m.mat[4]  a11 == m.mat[5]  a12 == m.mat[6]
        a20 == m.mat[7]  a21 == m.mat[8]  a22 == m.mat[9]
        b01 == a22 * a11 - a12 * a21
        b11 == (-a22) * a10 + a12 * a20
        b21 == a21 * a10 - a11 * a20
        det == a00 * b01 + a01 * b11 + a02 * b21
    IN  MatrixOf(<< b01,
                    (-a22) * a01 + a02 * a21,
                    a12 * a01 - a02 * a11,
                    b11,
                    a22 * a00 - a02 * a20,
                    (-a12) * a00 + a02 * a10,
                    b21,
                    (-a21) * a00 + a01 * a20,
                    a11 * a00 - a01 * a10 >>, det)

\* Matrix.invert of a matrix of whole numbers
Invert(m) ==
    LET a00 == m.mat[1]  a01 == m.mat[2]  a02 == m.mat[3]
        a10 == m.mat[4]  a11 == m.mat[5]  a12 == m.mat[6]
        a20 == m.mat[7]  a21 == m.mat[8]  a22 == m.mat[9]
        b01 == a22 * a11 - a12 * a21
        b11 == (-a22) * a10 + a12 * a20
        b21 == a21 * a10 - a11 * a20
        det == a00 * b01 + a01 * b11 + a02 * b21
    IN  IF det = 0 THEN m
        ELSE MatrixOf(<< b01,
                         (-a22) * a01 + a02 * a21,
                         a12 * a01 - a02 * a11,
                         b11,
                         a22 * a00 - a02 * a20,
                         (-a12) * a00 + a02 * a10,
                         b21,
                         (-a21) * a00 + a01 * a20,
                         a11 * a00 - a01 * a10 >>, det)

\* the matrices the game writes into: whole numbers up to MaxEntry
Written(m) == m.den = 1 /\ \A i \in 1..9 : m.mat[i] \in 0..MaxEntry

\* the matrices the game inverts: the written ones and their negations
Small(m) == Written(m) \/ Written(Scaler(m, -1))

MatOp(name, raised) == [op |-> name, raised |-> raised]

MatUnchanged ==
    UNCHANGED <<gfxVars, physVars, colVars, sceneVars, listVars, lifeVars, rectVars, groupVars, engineVars>>

MatIdentity ==
    /\ matrix' = Identity
    /\ matLast' = MatOp("identity", FALSE)
    /\ MatUnchanged

\* this.mat[i] = v
MatWrite(i, v) ==
    /\ Written(matrix)
    /\ matrix' = [matrix EXCEPT !.mat[i + 1] = v]
    /\ matLast' = MatOp("write", FALSE)
    /\ MatUnchanged

MatScaler(s) ==
    /\ matrix' = Scaler(matrix, s)
    /\ matLast' = MatOp("scaler", FALSE)
    /\ MatUnchanged

\* invert has no throw statement and calls nothing
MatInvert ==
    /\ Small(matrix)
    /\ matrix' = Invert(matrix)
    /\ matLast' = MatOp("invert", FALSE)
    /\ MatUnchanged

MatNext ==
    \/ MatIdentity
    \/ \E i \in 0..8, v \in 0..MaxEntry : MatWrite(i, v)
    \/ \E s \in {-1, 0} : MatScaler(s)
    \/ MatInvert

MatInit ==
    /\ matrix = Identity
    /\ matLast = MatOp("new", FALSE)

(***************************************************************************)
(* Rectangle                                                               *)
(***************************************************************************)
\* the largest coordinate and the largest side of the rectangles
MaxSide == 2

\* Rectangle.set
RectangleOf(x, y, w, h) == [x |-> x, y |-> y, width |-> w, height |-> h]

Right(r) == r.x + r.width

Bottom(r) == r.y + r.height

\* cropRect, its first two tests: r is moved to the left and top edges
CropNear(t, r) ==
    LET r1 == IF r.x < t.x
              THEN [r EXCEPT !.width = @ + (r.x - t.x), !.x = t.x]
              ELSE r
    IN  IF r1.y < t.x
        THEN [r1 EXCEPT !.height = @ + (r1.y - t.y), !.y = t.y]
        ELSE r1

\* cropRect, its third and fourth tests: r beyond the right or bottom edge
CropBeyond(t, r) ==
    LET r1 == IF r.x > Right(t) THEN [r EXCEPT !.x = Right(t), !.width = 0] ELSE r
    IN  IF r1.y > Bottom(t) THEN [r1 EXCEPT !.y = Bottom(t), !.height = 0] ELSE r1

\* cropRect, its last two tests: r reaching over the right or bottom edge
CropFar(t, r) ==
    LET r1 == IF Right(r) > Right(t) THEN [r EXCEPT !.width = Right(t) - r.x] ELSE r
    IN  IF Bottom(r1) > Bottom(t) THEN [r1 EXCEPT !.height = Bottom(t) - r1.y] ELSE r1

\* Rectangle.cropRect
CropRect(t, r) == CropFar(t, CropBeyond(t, CropNear(t, r)))

\* the coordinates and sides the rectangles are given
Sides == (-1)..MaxSide

Rectangles == {RectangleOf(x, y, w, h) : x \in Sides, y \in Sides,
                                         w \in Sides, h \in Sides}

RectOp(name, before) == [op |-> name, before |-> before]

RectUnchanged ==
    UNCHANGED <<gfxVars, physVars, colVars, sceneVars, listVars, lifeVars, matVars, groupVars, engineVars>>

\* clip.cropRect(rect)
RectCrop ==
    /\ rect' = CropRect(clip, rect)
    /\ rectLast' = RectOp("cropRect", rect)
    /\ UNCHANGED clip
    /\ RectUnchanged

RectNext == RectCrop

RectIdle ==
    /\ clip = RectangleOf(0, 0, 1, 1)
    /\ rect = RectangleOf(0, 0, 1, 1)
    /\ rectLast = RectOp("new", RectangleOf(0, 0, 1, 1))

\* every pair of rectangles with coordinates and sides in Sides
RectInit ==
    /\ clip \in Rectangles
    /\ rect \in Rectangles
    /\ rectLast = RectOp("new", rect)

(***************************************************************************)
(* Renderer: the entities of a pass                                        *)
(***************************************************************************)
GroupNames == {"g1", "g2"}

\* the masks a renderer is given: none, one group, both groups
Masks == {<<>>, <<"g1">>, <<"g2">>, <<"g1", "g2">>}

\* a scene with every entity of Entities added, visible and in no group, and
\* a renderer without a mask
GroupsInit ==
    [ entities |-> <<"e1", "e2">>,
      of       |-> [e \in Entities |-> <<>>],
      lists    |-> [g \in GroupNames |-> <<>>],
      mask     |-> <<>>,
      rendered |-> <<>> ]

\* Entity.group of an entity in the scene, with Scene._groupEntity
Group(gr, e, g) ==
    [gr EXCEPT !.of[e] = Append(@, g), !.lists[g] = Append(@, e)]

\* Entity.ungroup of an entity in the scene, with Scene._ungroupEntity
Ungroup(gr, e, g) ==
    IF IndexOf(gr.of[e], g) > 0
    THEN [gr EXCEPT !.of[e] = SpliceOut(@, IndexOf(@, g)),
                    !.lists[g] = IF IndexOf(@, e) > 0
                                 THEN [@ EXCEPT ![IndexOf(@, e)] = Null]
                                 ELSE @]
    ELSE gr

\* Scene.allInGroups into a new list: the live entities of each group of
\* the mask, one group after the other
RECURSIVE AllInGroups(_, _)
AllInGroups(gr, mask) ==
    IF mask = <<>> THEN <<>>
    ELSE Live(gr.lists[mask[1]]) \o AllInGroups(gr, Tail(mask))

\* Renderer.drawEntities: every visible entity of the list is rendered
DrawEntities(gr) ==
    [gr EXCEPT !.rendered = IF Len(gr.mask) > 0
                            THEN AllInGroups(gr, gr.mask)
                            ELSE Live(gr.entities)]

GroupOp(name) == [op |-> name]

GroupUnchanged ==
    UNCHANGED <<gfxVars, physVars, colVars, sceneVars, listVars, lifeVars, matVars,
                rectVars, engineVars>>

\* e.group(g), of an entity that is not in g
RenderGroup(e, g) ==
    /\ IndexOf(groups.of[e], g) = 0
    /\ Len(groups.lists[g]) < MaxLen
    /\ groups' = Group(groups, e, g)
    /\ groupLast' = GroupOp("group")
    /\ GroupUnchanged

RenderUngroup(e, g) ==
    /\ groups' = Ungroup(groups, e, g)
    /\ groupLast' = GroupOp("ungroup")
    /\ GroupUnchanged

\* renderer.groupsMask = mask
RenderSetMask(mask) ==
    /\ groups' = [groups EXCEPT !.mask = mask]
    /\ groupLast' = GroupOp("mask")
    /\ GroupUnchanged

\* Renderer.render
RenderPass ==
    /\ groups' = DrawEntities(groups)
    /\ groupLast' = GroupOp("render")
    /\ GroupUnchanged

PassNext ==
    \/ \E e \in Entities, g \in GroupNames : RenderGroup(e, g)
    \/ \E e \in Entities, g \in GroupNames : RenderUngroup(e, g)
    \/ \E mask \in Masks : RenderSetMask(mask)
    \/ RenderPass

GroupInit ==
    /\ groups = GroupsInit
    /\ groupLast = GroupOp("new")

(***************************************************************************)
(* Engine: scene changes, the step and exit                                *)
(***************************************************************************)
\* the scenes the game goes to
Stages == {"s1", "s2"}

Call(k, s) == [k |-> k, s |-> s]

\* Engine.start, after the ready callback: no scene, nothing pending, not
\* exiting, the first step requested; calls holds what the last action called
EngineInit ==
    [ scene            |-> Null,
      nextScene        |-> Null,
      disposeLastScene |-> FALSE,
      exiting          |-> FALSE,
      scheduled        |-> TRUE,
      phase            |-> "idle",
      calls            |-> <<>> ]

Called(en, k, s) == [en EXCEPT !.calls = Append(@, Call(k, s))]

\* a method of a scene is entered: the game's code runs until it returns
CalledInto(en, k) == [Called(en, k, en.scene) EXCEPT !.phase = k]

\* Engine.goto
Goto(en, s, dispose) ==
    [en EXCEPT !.nextScene = s, !.disposeLastScene = dispose]

\* the instance's exit: the flag, then Assets.unload and Graphics.unload
Unload(en) ==
    Called(Called([en EXCEPT !.exiting = TRUE], "Assets.unload", Null),
           "Graphics.unload", Null)

\* Engine.exit (static); Engine.started holds since Engine.start
Exit(en) == IF ~en.exiting THEN Unload(en) ELSE en

\* step, its end: the sounds, and the next step unless the engine is exiting
Finish(en) == [en EXCEPT !.scheduled = ~en.exiting, !.phase = "idle"]

\* step that draws the frame whether or not a scene is pending
AfterUpdateAlways(en) ==
    LET reset == Called(en, "Graphics.reset", Null)
    IN  IF reset.scene # Null
        THEN CalledInto(reset, "render")
        ELSE Finish(Called(reset, "Graphics.finalize", Null))

\* step, after Scene.update: the frame is drawn unless a scene is pending
AfterUpdate(en) ==
    IF en.nextScene = Null
    THEN LET reset == Called(en, "Graphics.reset", Null)
         IN  IF reset.scene # Null
             THEN CalledInto(reset, "render")
             ELSE Finish(Called(reset, "Graphics.finalize", Null))
    ELSE Finish(en)

\* step, "update scene"
UpdateScene(en) ==
    IF en.scene # Null THEN CalledInto(en, "update") ELSE AfterUpdate(en)

\* step, "swap scenes" after ended() and dispose() of the last scene
SwapScenes(en) ==
    CalledInto([en EXCEPT !.scene = en.nextScene, !.nextScene = Null], "begin")

\* step, from its first line to the first method of a scene it calls
BeginStep(en) ==
    LET start == Called([en EXCEPT !.scheduled = FALSE], "Graphics.update", Null)
    IN  IF start.nextScene # Null
        THEN IF start.scene # Null THEN CalledInto(start, "ended") ELSE SwapScenes(start)
        ELSE UpdateScene(start)

\* step, from the return of a method of a scene to the next one it calls
Resume(en) ==
    CASE en.phase = "ended"   -> IF en.disposeLastScene
                                 THEN CalledInto(en, "dispose")
                                 ELSE SwapScenes(en)
      [] en.phase = "dispose" -> SwapScenes(en)
      [] en.phase = "begin"   -> UpdateScene(en)
      [] en.phase = "update"  -> AfterUpdate(en)
      [] en.phase = "render"  -> Finish(Called(en, "Graphics.finalize", Null))

Silent(en) == [en EXCEPT !.calls = <<>>]

\* what an observer has counted: the calls of the step under way or of the
\* last one, the scene whose begin() was called and ended() not yet, the
\* scenes whose ended() was called with no begin() since, the unloads up to
\* two, and whether goto was called since the step under way began
EngineWatchInit ==
    [ step    |-> <<>>,
      running |-> Null,
      over    |-> {},
      unloads |-> 0,
      fresh   |-> FALSE ]

RECURSIVE Noted(_, _)
Noted(w, calls) ==
    IF calls = <<>> THEN w
    ELSE LET c  == calls[1]
             w1 == [w EXCEPT !.step = Append(@, c)]
             w2 == CASE c.k = "begin" -> [w1 EXCEPT !.running = c.s, !.over = @ \ {c.s}]
                     [] c.k = "ended" -> [w1 EXCEPT !.running = Null, !.over = @ \cup {c.s}]
                     [] c.k = "Graphics.unload" ->
                            [w1 EXCEPT !.unloads = IF @ < 2 THEN @ + 1 ELSE @]
                     [] OTHER -> w1
         IN  Noted(w2, Tail(calls))

EngineUnchanged ==
    UNCHANGED <<gfxVars, physVars, colVars, sceneVars, listVars, lifeVars, matVars,
                rectVars, groupVars>>

\* the host calls the requested step
EngineStep ==
    /\ engine.phase = "idle"
    /\ engine.scheduled
    /\ engine' = BeginStep(Silent(engine))
    /\ engineWatch' = Noted([engineWatch EXCEPT !.step = <<>>, !.fresh = FALSE],
                            engine'.calls)
    /\ engineLast' = "step"
    /\ EngineUnchanged

\* a method of a scene returns
EngineResume ==
    /\ engine.phase # "idle"
    /\ engine' = Resume(Silent(engine))
    /\ engineWatch' = Noted(engineWatch, engine'.calls)
    /\ engineLast' = "return"
    /\ EngineUnchanged

\* Engine.goto(s, dispose), between two steps or from a method of a scene
EngineGoto(s, dispose) ==
    /\ engine' = Goto(Silent(engine), s, dispose)
    /\ engineWatch' = [engineWatch EXCEPT !.fresh = engine.phase # "idle"]
    /\ engineLast' = "goto"
    /\ EngineUnchanged

\* Engine.exit(), between two steps or from a method of a scene
EngineExit ==
    /\ engine' = Exit(Silent(engine))
    /\ engineWatch' = Noted(engineWatch, engine'.calls)
    /\ engineLast' = "exit"
    /\ EngineUnchanged

\* steps of a game that changes scene
GotoNext ==
    \/ EngineStep
    \/ EngineResume
    \/ \E s \in Stages, dispose \in BOOLEAN : EngineGoto(s, dispose)

\* steps of a game that changes scene and exits
ExitNext ==
    \/ EngineStep
    \/ EngineResume
    \/ \E s \in Stages, dispose \in BOOLEAN : EngineGoto(s, dispose)
    \/ EngineExit

EngineIdle ==
    /\ engine = EngineInit
    /\ engineWatch = EngineWatchInit
    /\ engineLast = "start"

\* the collider registry, the scene, the lists, the matrix, the rectangles,
\* the groups and the step while another part of the engine is observed
LibIdle ==
    /\ ColInit /\ SceneInit /\ ListInit /\ LifeInit /\ MatInit /\ RectIdle
    /\ GroupInit /\ EngineIdle

\* the engine with the renderer under observation
InitGraphics == GfxInit /\ PhysIdle /\ LibIdle

\* the engine with the mover under observation, in every scene of Scenes
InitPhysics == GfxInit /\ PhysInit /\ LibIdle

\* the mover with no solids, with the walls as solids, and with its own
\* collider tracked as a solid before the walls
InitAxes == GfxInit /\ PhysStart({GhostScene, WalledScene, TaggedScene}) /\ LibIdle

\* the mover with no solids, and with the walls as solids
InitCarry == GfxInit /\ PhysStart({GhostScene, WalledScene}) /\ LibIdle

\* the batch renderer under every operation of Graphics
SpecGraphics == InitGraphics /\ [][GfxNext]_vars

\* one batch at a time: push, shader and blendmode assignments, a final flush
SpecBatch == InitGraphics /\ [][BatchNext]_vars

\* the mover under every operation of Physics
SpecPhysics == InitPhysics /\ [][PhysNext]_vars

\* the mover under update and move, which resolve both axes
SpecAxes == InitAxes /\ [][AxesNext]_vars

\* the mover under updates whose X callbacks remove its entity
SpecLeave == InitAxes /\ [][LeaveNext]_vars

\* sequences of moveX / moveY calls with the sum of their amounts kept
SpecCarry == InitCarry /\ [][CarryNext]_vars

\* the engine with the colliders under observation
InitCollider == GfxInit /\ PhysIdle /\ LibIdle

\* overlap tests and queries of a Hitbox that the game moves and resizes
SpecQuery == InitCollider /\ [][QueryNext]_vars

\* registrations of a test of the game's own, and overlap tests
SpecRegistry == InitCollider /\ [][RegistryNext]_vars

\* a scene, two entities and two colliders under every call that adds,
\* removes, tags or untags
SpecIndex == InitCollider /\ [][IndexNext]_vars

\* the engine with a list of the game's own under observation
InitList == GfxInit /\ PhysIdle /\ LibIdle

\* an ObjectList under every call, the calls made by callbacks included
SpecList == InitList /\ [][ListNext]_vars

\* an ObjectList under traversals that nest
SpecNested == InitList /\ [][NestedNext]_vars

\* an ObjectList that is not traversed
SpecEdit == InitList /\ [][EditNext]_vars

\* traversals whose callbacks remove objects; a callback returns and the
\* loop of each() goes on
SpecTraversal == InitList /\ [][TraversalNext]_vars /\ WF_vars(TraversalStep)

\* an entity under every call that adds, removes, recycles or recreates it
SpecLife == InitList /\ [][LifeNext]_vars

\* Scene.update over entities whose hooks add and remove entities
SpecUpdate == InitList /\ [][UpdateNext]_vars

\* frames of Scene.update and Scene.render over entities that change depth
SpecRender == InitList /\ [][RenderNext]_vars

\* frames over entities whose depth is assigned in and out of the scene
SpecDepth == InitList /\ [][DepthNext]_vars

\* a matrix that is written, scaled and inverted
SpecMatrix == InitList /\ [][MatNext]_vars

\* render passes of a renderer over entities that join and leave groups
SpecPass == InitList /\ [][PassNext]_vars

\* the steps of a game that goes from scene to scene
SpecGoto == InitList /\ [][GotoNext]_vars

\* the steps of a game that goes from scene to scene and exits
SpecExit == InitList /\ [][ExitNext]_vars

\* the engine with every pair of rectangles
InitRect ==
    /\ GfxInit /\ PhysIdle
    /\ ColInit /\ SceneInit /\ ListInit /\ LifeInit /\ MatInit /\ RectInit
    /\ GroupInit /\ EngineIdle

\* cropRect called, once and again, on every pair of rectangles
SpecRect == InitRect /\ [][RectNext]_vars

(***************************************************************************)
(* Graphics: batching                                                      *)
(***************************************************************************)
\* the state of the WebGL context a vertex is drawn under
AppliedState(g) ==
    [sh |-> g.glProgram, bm |-> g.glBlend,
     un |-> IF g.glProgram = Null THEN Null ELSE g.glUniforms[g.glProgram]]

SameApplied(v, a) == v.sh = a.sh /\ v.bm = a.bm /\ v.un = a.un

\* C1: every vertex is drawn by a draw call issued under the shader, blend
\* mode and uniform values that were applied when the vertex was pushed, and
\* while vertices are queued the applied state is still the one they were
\* pushed under (a pending swap or dirty uniform reaches the GPU only after
\* the queue was flushed).
C1_DrawnUnderPushedState ==
    /\ \A i \in 1..Len(graphics.draws) :
          \A v \in graphics.draws[i].verts :
             SameApplied(v, [sh |-> graphics.draws[i].program,
                             bm |-> graphics.draws[i].blend,
                             un |-> graphics.draws[i].uniforms])
    /\ \A i \in 1..Len(graphics.vertices) :
          SameApplied(graphics.vertices[i], AppliedState(graphics))

\* a push flushed queued vertices and then applied another shader and another
\* blend mode
C1_Witness ==
    /\ gfxLast.op = "push"
    /\ Len(graphics.draws) = 1
    /\ graphics.draws[1].program # graphics.glProgram
    /\ graphics.draws[1].blend # graphics.glBlend
    /\ Len(graphics.vertices) = 1

\* C2: in a batch of push calls and shader / blendmode assignments ended by a
\* flush, the draw calls issued equal the maximal runs of pushed vertices with
\* the same effective (shader, blendmode) pair.
C2_DrawCallsEqualRuns ==
    (gfxLast.op = "flush" /\ batch.ended) => graphics.drawCalls = batch.runs

\* C3: setRenderTarget to another target flushes the queued vertices to the
\* old target before the new one becomes current, every vertex is drawn into
\* the target that was current when it was pushed, and setRenderTarget to the
\* current target issues no draw call.
C3_FlushBeforeTargetSwitch ==
    [][ /\ \A i \in 1..Len(graphics'.draws) :
              \A v \in graphics'.draws[i].verts :
                 v.tg = graphics'.draws[i].framebuffer
        /\ gfxLast'.op = "setRenderTarget" =>
              /\ graphics'.currentTarget = gfxLast'.arg
              /\ graphics'.glFramebuffer = gfxLast'.arg
              /\ IF gfxLast'.arg = graphics.currentTarget
                 THEN /\ graphics'.draws = <<>>
                      /\ graphics'.drawCalls = graphics.drawCalls
                      /\ graphics'.vertices = graphics.vertices
                 ELSE /\ graphics'.vertices = <<>>
                      /\ graphics.vertices # <<>> =>
                            /\ Len(graphics'.draws) = 1
                            /\ graphics'.draws[1].framebuffer = graphics.currentTarget
                            /\ graphics'.drawCalls = graphics.drawCalls + 1
                      /\ graphics.vertices = <<>> => graphics'.draws = <<>>
      ]_vars

\* setRenderTarget switched away from a target that had vertices queued
C3_Witness ==
    /\ gfxLast.op = "setRenderTarget"
    /\ Len(graphics.draws) = 1
    /\ graphics.draws[1].framebuffer # graphics.currentTarget
    /\ graphics.draws[1].verts # {}

\* C4: texture() while the active shader has no sampler2D uniform raises, and
\* leaves the queued vertices and the draw-call count as they were.
C4_TextureWithoutSamplerRaises ==
    [][ ( /\ gfxLast'.op = "texture"
          /\ ShaderOf(graphics) # Null
          /\ Sampler2d(ShaderOf(graphics)) = Null )
        => /\ graphics'.threw
           /\ graphics'.vertices = graphics.vertices
           /\ graphics'.drawCalls = graphics.drawCalls
           /\ graphics'.draws = <<>>
      ]_vars

\* texture() raised under the primitive shader with vertices queued
C4_Witness ==
    /\ gfxLast.op = "texture"
    /\ graphics.threw
    /\ ShaderOf(graphics) = "primitive"
    /\ Len(graphics.vertices) > 0

(***************************************************************************)
(* Physics: swept movement against solids                                  *)
(***************************************************************************)
MoveOps == {"moveX", "moveY", "moveXAbsolute", "moveYAbsolute", "move", "update"}

\* a collider of another entity that carries one of the mover's solid tags
\* overlaps the mover's hitbox when its entity is at (ex, ey)
OverlapsOtherSolid(ex, ey) ==
    \E i \in 1..Len(physics.solids) :
       \E j \in 1..Len(AllCollidersInTag(physics.solids[i])) :
          LET id == AllCollidersInTag(physics.solids[i])[j]
          IN  /\ ColliderOf(id).entity # "player"
              /\ HitboxOverlap(SceneBounds("body", ex, ey, 0, 0),
                               SceneBounds(id, ex, ey, 0, 0))

\* where the probe of event e looked
ProbeX(e) == e.at[1] + (IF e.axis = "x" THEN e.sign ELSE 0)

ProbeY(e) == e.at[2] + (IF e.axis = "y" THEN e.sign ELSE 0)

Probes(events) == {i \in 1..Len(events) : events[i].k = "probe"}

Callbacks(events) ==
    SelectSeq(events, LAMBDA e : e.k \in {"onCollidex", "onCollidey", "onCollide"})

\* C5: a mover with solids configured that overlaps no solid of another
\* entity before a move overlaps none after it.
C5_NoOverlapAfterMove ==
    [][ ( /\ physLast'.op \in MoveOps
          /\ Len(physics.solids) > 0
          /\ ~OverlapsOtherSolid(entity.x, entity.y) )
        => ~OverlapsOtherSolid(entity'.x, entity'.y) ]_vars

\* C6: a unit step is blocked exactly when the mover translated to the next
\* position overlaps a solid-tagged collider of another entity.
C6_BlockedIffOtherSolid ==
    physLast.op \in MoveOps =>
       \A i \in Probes(physLast.events) :
          LET e == physLast.events[i]
          IN  e.blocked <=> OverlapsOtherSolid(ProbeX(e), ProbeY(e))

\* the callbacks a call must have made on an axis: none when no step of that
\* axis was blocked, else onCollideX / onCollideY when set and then every
\* entry of onCollide, each once, with the collider that blocked the step
ExpectedCallbacks(events, axis) ==
    LET blocked == {i \in Probes(events) : events[i].axis = axis /\ events[i].blocked}
    IN  IF blocked = {} THEN <<>>
        ELSE LET p == events[CHOOSE i \in blocked : TRUE]
                 set == IF axis = "x" THEN physics.onCollideX ELSE physics.onCollideY
                 one == IF set THEN <<[k |-> "onCollide" \o axis, axis |-> axis,
                                       hit |-> p.hit]>>
                        ELSE <<>>
             IN  one \o [i \in 1..physics.onCollide |->
                            [k |-> "onCollide", axis |-> axis, hit |-> p.hit]]

MadeCallbacks(events, axis) ==
    LET cbs == SelectSeq(Callbacks(events), LAMBDA e : e.axis = axis)
    IN  [i \in 1..Len(cbs) |-> [k |-> cbs[i].k, axis |-> cbs[i].axis, hit |-> cbs[i].hit]]

\* C7: a call blocked by a solid invokes onCollideX (onCollideY) when set and
\* every onCollide entry exactly once, with (isHorizontal, blocking collider);
\* a call that is not blocked invokes none, and none is invoked while solids
\* is empty.
C7_CallbacksOncePerBlockedCall ==
    physLast.op \in MoveOps =>
       /\ \A axis \in {"x", "y"} :
             /\ MadeCallbacks(physLast.events, axis)
                   = ExpectedCallbacks(physLast.events, axis)
             /\ Cardinality({i \in Probes(physLast.events) :
                   physLast.events[i].axis = axis /\ physLast.events[i].blocked}) <= 1
       /\ \A i \in Probes(physLast.events) :
             physLast.events[i].blocked =>
                /\ physLast.events[i].hit # Null
                /\ ColliderOf(physLast.events[i].hit).entity # "player"
       /\ physLast.op # "update" =>
             (physLast.result <=>
                \A i \in Probes(physLast.events) : ~physLast.events[i].blocked)
       /\ Len(physics.solids) = 0 => Callbacks(physLast.events) = <<>>

\* moveX was blocked by a wall after a committed step; onCollideX and the two
\* onCollide entries were invoked
C7_Witness ==
    /\ physLast.op = "moveX"
    /\ ~physLast.result
    /\ Len(Callbacks(physLast.events)) = 3
    /\ \E i \in Probes(physLast.events) : ~physLast.events[i].blocked

\* the whole number of units a call asks for
Requested(op, amount, remainder) ==
    IF op \in {"moveX", "moveY"} THEN TruncDiv(amount + remainder, Scale)
    ELSE MathRound(amount)

\* C8: moveX / moveXAbsolute (and the Y mirror) return true exactly when the
\* entity was displaced by the full requested whole amount; on false the
\* entity moved strictly fewer units in the requested direction and that
\* axis's remainder is 0; the other axis's position and remainder are
\* unchanged.
C8_TrueIffFullDisplacement ==
    [][ /\ physLast'.op \in {"moveX", "moveXAbsolute"} =>
             LET req == Requested(physLast'.op, physLast'.amount, physics.remainder.x)
                 d == entity'.x - entity.x
             IN  /\ physLast'.result <=> d = req
                 /\ ~physLast'.result =>
                       /\ Abs(d) < Abs(req)
                       /\ d * CalcSign(req) >= 0
                       /\ physics'.remainder.x = 0
                 /\ entity'.y = entity.y
                 /\ physics'.remainder.y = physics.remainder.y
        /\ physLast'.op \in {"moveY", "moveYAbsolute"} =>
             LET req == Requested(physLast'.op, physLast'.amount, physics.remainder.y)
                 d == entity'.y - entity.y
             IN  /\ physLast'.result <=> d = req
                 /\ ~physLast'.result =>
                       /\ Abs(d) < Abs(req)
                       /\ d * CalcSign(req) >= 0
                       /\ physics'.remainder.y = 0
                 /\ entity'.x = entity.x
                 /\ physics'.remainder.x = physics.remainder.x
      ]_vars

\* moveX of the largest amount took a step and was blocked at a later one:
\* false, remainder.x zeroed, a non-zero remainder.y kept
C8_Witness ==
    /\ physLast.op = "moveX"
    /\ ~physLast.result
    /\ physLast.amount = MaxAmount
    /\ Len(physLast.events) >= 3
    /\ physics.remainder.x = 0
    /\ physics.remainder.y # 0

\* C9 as claimed: while an axis was never blocked, displacement plus remainder
\* equals the sum of the amounts, |remainder| < 1, and the position and the
\* remainder are those of one step of the sum.
C9_StepsEqualOneStepOfSum ==
    \A a \in {"x", "y"} :
       ~carry[a].blocked =>
          /\ entity[a] * Scale + physics.remainder[a] = carry[a].sum
          /\ Abs(physics.remainder[a]) < Scale
          /\ entity[a] = TruncDiv(carry[a].sum, Scale)
          /\ physics.remainder[a] = JSRem(carry[a].sum)

\* C9 amended: the sum is kept for every sequence; the result equals that of
\* one step of the sum when no two amounts have opposite signs.
C9_CarryKeepsSum ==
    \A a \in {"x", "y"} :
       ~carry[a].blocked =>
          /\ entity[a] * Scale + physics.remainder[a] = carry[a].sum
          /\ Abs(physics.remainder[a]) < Scale
          /\ Cardinality(carry[a].signs) <= 1 =>
                /\ entity[a] = TruncDiv(carry[a].sum, Scale)
                /\ physics.remainder[a] = JSRem(carry[a].sum)

\* two moves of half a unit on x displaced the entity by exactly one unit
C9_Witness ==
    /\ physLast.op = "moveX"
    /\ physLast.amount = 1
    /\ ~carry["x"].blocked
    /\ carry["x"].signs = {1}
    /\ carry["x"].sum = Scale
    /\ carry["x"].n = Scale
    /\ entity.x = 1
    /\ physics.remainder.x = 0

\* C10: update (and move) resolves the X axis completely before the first Y
\* probe, every Y probe is evaluated at the x reached by the X resolution, and
\* moveY is called whenever speed.y is non-zero, whether or not X was blocked.
C10_XBeforeY ==
    physLast.op \in {"update", "move"} =>
       LET ev == physLast.events
       IN  /\ \A i, j \in 1..Len(ev) :
                 (ev[i].axis = "y" /\ ev[j].axis = "x") => j < i
           /\ \A i \in 1..Len(ev) : ev[i].axis = "y" => ev[i].at[1] = entity.x
           /\ (\E i \in 1..Len(ev) : ev[i].k = "moveY")
                 <=> (physLast.op = "move" \/ physLast.amount[2] # 0)
           /\ (\E i \in 1..Len(ev) : ev[i].k = "moveX")
                 <=> (physLast.op = "move" \/ physLast.amount[1] # 0)

\* an update whose X sweep was blocked, with its callbacks made, and whose Y
\* sweep then probed and stepped
C10_Witness ==
    /\ physLast.op = "update"
    /\ Callbacks(physLast.events) # <<>>
    /\ \E j, k \in Probes(physLast.events) :
          /\ physLast.events[j].axis = "x" /\ physLast.events[j].blocked
          /\ physLast.events[k].axis = "y" /\ ~physLast.events[k].blocked

(***************************************************************************)
(* Collider: queries, registry and the two overlap tests                   *)
(***************************************************************************)
QueryOps == {"collide", "collideAll", "check", "collides"}

\* C11: collide, collideAll, check and collides leave the local position of
\* the collider as it was before the call, when the query returns and when
\* an overlap test raises.
C11_QueryRestoresPosition ==
    [][ colLast'.op \in QueryOps =>
           /\ shapes'["boxA"].x = shapes["boxA"].x
           /\ shapes'["boxA"].y = shapes["boxA"].y ]_vars

Registered(a, b) == <<TypeOf(a), TypeOf(b)>> \in DOMAIN overlaptest

\* C12: Collider.overlap(a, b) for a type pair without a registered test
\* raises; it returns neither true nor false.
C12_UnregisteredPairRaises ==
    (colLast.op = "overlap" /\ ~Registered(colLast.a, colLast.b)) => colLast.threw

\* overlap raised for a pair whose first type has tests registered, and for
\* a pair whose first type has none
C12_Witness ==
    /\ colLast.op = "overlap"
    /\ colLast.threw
    /\ \/ colLast.a = "grid" /\ colLast.b = "grid"
       \/ colLast.a = "orb" /\ ~\E t \in Types : <<"Circle", t>> \in DOMAIN overlaptest

\* C13 as claimed: after registerOverlapTest(A, B, fn), overlap(a, b) and
\* overlap(b, a) both equal fn(a, b) for every a of type A and b of type B,
\* also when A = B.
C13_RegisteredBothWays ==
    colLast.op = "register" =>
       \A a \in ShapeIds, b \in ShapeIds :
          (TypeOf(a) = colLast.a /\ TypeOf(b) = colLast.b) =>
             /\ Overlap(overlaptest, shapes, a, b)
                   = Returned(Test(colLast.hits[1], shapes, a, b))
             /\ Overlap(overlaptest, shapes, b, a)
                   = Returned(Test(colLast.hits[1], shapes, a, b))

\* C13 amended: the same for A # B; for A = B the wrapper replaces fn, and
\* overlap(a, b) equals fn(b, a) for every a and b of that type.
C13_RegisteredBothWaysDistinct ==
    colLast.op = "register" =>
       \A a \in ShapeIds, b \in ShapeIds :
          (TypeOf(a) = colLast.a /\ TypeOf(b) = colLast.b) =>
             IF colLast.a # colLast.b
             THEN /\ Overlap(overlaptest, shapes, a, b)
                        = Returned(Test(colLast.hits[1], shapes, a, b))
                  /\ Overlap(overlaptest, shapes, b, a)
                        = Returned(Test(colLast.hits[1], shapes, a, b))
             ELSE Overlap(overlaptest, shapes, a, b)
                     = Returned(Test(colLast.hits[1], shapes, b, a))

\* a test that tells its arguments apart was registered for the game's type
\* against Hitbox, after it had been registered for Hitbox against Hitbox
C13_Witness ==
    /\ colLast.op = "register" /\ colLast.a = "Circle" /\ colLast.b = "Hitbox"
    /\ Test("leftOf", shapes, "orb", "boxA") # Test("leftOf", shapes, "boxA", "orb")
    /\ overlaptest[<<"Hitbox", "Hitbox">>].fn = "leftOf"

\* the width of the intersection of two intervals, when positive
Positive(lo1, hi1, lo2, hi2) ==
    (IF hi1 < hi2 THEN hi1 ELSE hi2) - (IF lo1 > lo2 THEN lo1 ELSE lo2) > 0

\* two rectangles intersect in a region of positive width and height
PositiveArea(a, b) ==
    /\ Positive(a.left, a.right, b.left, b.right)
    /\ Positive(a.top, a.bottom, b.top, b.bottom)

BothHitbox == TypeOf(colLast.a) = "Hitbox" /\ TypeOf(colLast.b) = "Hitbox"

ProperBox(id) == shapes[id].width > 0 /\ shapes[id].height > 0

\* C14 as claimed: the Hitbox-Hitbox test is true exactly when the two scene
\* rectangles intersect in a region of positive width and height, and is
\* symmetric.
C14_HitboxOverlapIsPositiveArea ==
    (colLast.op = "overlap" /\ BothHitbox) =>
       /\ ~colLast.threw
       /\ colLast.value <=> PositiveArea(HitboxBounds(shapes, colLast.a),
                                         HitboxBounds(shapes, colLast.b))
       /\ colLast.value = Overlap(overlaptest, shapes, colLast.b, colLast.a).value

\* C14 amended: the same for two Hitboxes of positive width and height.
C14_ProperHitboxOverlap ==
    (colLast.op = "overlap" /\ BothHitbox
        /\ ProperBox(colLast.a) /\ ProperBox(colLast.b)) =>
       /\ ~colLast.threw
       /\ colLast.value <=> PositiveArea(HitboxBounds(shapes, colLast.a),
                                         HitboxBounds(shapes, colLast.b))
       /\ colLast.value = Overlap(overlaptest, shapes, colLast.b, colLast.a).value

\* the probing Hitbox, one unit wide, shares its right edge with the left
\* edge of the other over a stretch of positive length: no overlap
C14_Witness ==
    /\ colLast.op = "overlap" /\ colLast.a = "boxA" /\ colLast.b = "boxB"
    /\ ProperBox("boxA")
    /\ HitboxBounds(shapes, "boxA").right = HitboxBounds(shapes, "boxB").left
    /\ Positive(HitboxBounds(shapes, "boxA").top, HitboxBounds(shapes, "boxA").bottom,
                HitboxBounds(shapes, "boxB").top, HitboxBounds(shapes, "boxB").bottom)
    /\ ~colLast.value

\* the scene rectangle of the tile (tx, ty) of the Hitgrid g
TileRect(g, t) ==
    [left |-> shapes[g].x + t[1] * TileSize,
     right |-> shapes[g].x + (t[1] + 1) * TileSize,
     top |-> shapes[g].y + t[2] * TileSize,
     bottom |-> shapes[g].y + (t[2] + 1) * TileSize]

HitboxOnGrid == colLast.a = "boxA" /\ colLast.b = "grid"

\* C15 as claimed: the Hitbox-Hitgrid test is true exactly when some solid
\* tile, as a rectangle at the grid's scene position, intersects the bounds
\* of the Hitbox in a region of positive area.
C15_HitgridOverlapIsPositiveArea ==
    (colLast.op = "overlap" /\ HitboxOnGrid) =>
       /\ ~colLast.threw
       /\ colLast.value <=>
             \E t \in shapes["grid"].tiles :
                PositiveArea(HitboxBounds(shapes, "boxA"), TileRect("grid", t))

\* C15 amended: the same for a Hitbox of positive width and height.
C15_ProperHitgridOverlap ==
    (colLast.op = "overlap" /\ HitboxOnGrid /\ ProperBox("boxA")) =>
       /\ ~colLast.threw
       /\ colLast.value <=>
             \E t \in shapes["grid"].tiles :
                PositiveArea(HitboxBounds(shapes, "boxA"), TileRect("grid", t))

\* both tiles are solid; the Hitbox lies against the right edge of the tile
\* at negative coordinates and the left edge of the other: no overlap
C15_Witness ==
    /\ colLast.op = "overlap" /\ HitboxOnGrid /\ ProperBox("boxA")
    /\ shapes["grid"].tiles = TileCoords
    /\ HitboxBounds(shapes, "boxA").right = TileRect("grid", <<0, 0>>).left
    /\ Positive(HitboxBounds(shapes, "boxA").top, HitboxBounds(shapes, "boxA").bottom,
                TileRect("grid", <<0, 0>>).top, TileRect("grid", <<0, 0>>).bottom)
    /\ HitboxBounds(shapes, "boxA").top = TileRect("grid", <<-1, -1>>).bottom
    /\ ~colLast.value

\* the colliders the scene should hold under a tag: those that carry it and
\* whose entity is in the scene
Carrying(tag) ==
    {c \in Components : tag \in Elements(world.tags[c]) /\ InScene(world, c)}

\* C16: after any sequence of Scene.add / remove, Entity.add / remove and
\* Collider.tag / untag, allCollidersInTag(tag) holds exactly the colliders
\* that carry the tag and are attached to an entity in the scene.
C16_IndexHoldsTaggedInScene ==
    \A tag \in SceneTags :
       Elements(CollidersInTag(world, tag)) = Carrying(tag)

\* C17: no key of the scene's collider index maps to an empty list, and
\* allCollidersInTag of an absent tag is the empty list.
C17_NoEmptyTagList ==
    /\ \A tag \in DOMAIN world.colliders : Len(world.colliders[tag]) > 0
    /\ \A tag \in SceneTags \ DOMAIN world.colliders :
          CollidersInTag(world, tag) = <<>>

\* the last collider of a tag was untracked by untag, by Entity.remove or by
\* Scene.remove, and the key is gone while another key stays
C17_Witness ==
    /\ sceneLast.op \in {"untag", "Entity.remove", "Scene.remove"}
    /\ sceneLast.dropped = {"coin"}
    /\ DOMAIN world.colliders = {"solid"}

LiveSlots(objects) == {i \in 0..(Len(objects) - 1) : Slot(objects, i) # Null}

\* C18: ObjectList.count equals the number of non-null slots, after any
\* sequence of add, remove, clear, clean, sort, moveAfter and each.
C18_CountIsLiveSlots == list.count = Cardinality(LiveSlots(list.objects))

VisitedSlots == {trace.visited[k][1] : k \in 1..Len(trace.visited)}

\* the slots whose turn has come: all of them once each() has finished
Passed ==
    IF frames = <<>> THEN IF trace.done THEN 0..(Len(trace.start) - 1) ELSE {}
    ELSE {i \in 0..(Top.n - 1) : i < Top.i \/ (i = Top.i /\ Top.cb)}

EachVisitsLiveOnce ==
    /\ \A k \in 1..Len(trace.visited) :
          /\ trace.visited[k][2] # Null
          /\ trace.visited[k][2] = Slot(trace.start, trace.visited[k][1])
          /\ trace.visited[k][1] \notin trace.gone
          /\ \A j \in 1..(k - 1) : trace.visited[j][1] < trace.visited[k][1]
    /\ \A i \in Passed :
          i \in VisitedSlots <=> (i \in LiveSlots(trace.start) /\ i \notin trace.gone)

\* C19: in a traversal whose callbacks remove objects, the callback is called
\* exactly once for every object that was live at the start and is still live
\* when its slot is reached, never for a removed one, never twice for a slot,
\* and the traversal ends.
C19_EachVisitsSurvivorsOnce ==
    /\ []EachVisitsLiveOnce
    /\ (frames # <<>>) ~> (frames = <<>>)

\* a traversal of three objects has finished, in which the callback removed
\* the object it was called on and one further on
C19_Witness ==
    /\ frames = <<>> /\ trace.done
    /\ Len(trace.start) = 3 /\ LiveSlots(trace.start) = {0, 1, 2}
    /\ trace.gone # {}
    /\ Len(trace.visited) = 2
    /\ \E k \in 1..2 : Slot(list.objects, trace.visited[k][1]) = Null

Once(objects, o) == Cardinality({i \in 1..Len(objects) : objects[i] = o}) = 1

\* remove(a) took a out of a list that held each of its objects once and
\* whose count was the number of its objects, and clean() followed
RemovedThenCleaned ==
    /\ listLast.op = "clean" /\ listLast.result
    /\ \A o \in Elements(Live(listLast.before.objects)) :
          Once(listLast.before.objects, o)
    /\ listLast.before.count = Len(Live(listLast.before.objects))

C21_MoveAfterDeferred ==
    [][/\ (frames # <<>> /\ listLast'.op = "moveAfter") =>
             list'.objects = list.objects
       /\ (frames # <<>> /\ frames' # <<>>) =>
             Len(list'.moveAfters) >= Len(list.moveAfters)]_vars

NullSlots(objects) == {i \in 1..Len(objects) : objects[i] = Null}

\* C22: no null slot is taken out of the array while an each() traversal is
\* in progress, for any nesting of each() and any remove / moveAfter in the
\* callbacks, and a clean() of a list whose count is right keeps the live
\* objects and their order.
C22_NoCompactionInTraversal ==
    [][/\ (frames # <<>> /\ frames' # <<>>) =>
             Cardinality(NullSlots(list'.objects))
                >= Cardinality(NullSlots(list.objects))
       /\ (listLast'.op = "clean" /\ list.count = Len(Live(list.objects))) =>
             Live(list'.objects) = Live(list.objects)]_vars

\* the objects of one rank of the compare function, in their order
Ranked(objects, rank) == SelectSeq(objects, LAMBDA x : x # Null /\ Order[x] = rank)

Ranks == {Order[o] : o \in Objects}

\* C23: sort(compare) with unsorted set, on a list without null slots, leaves
\* the same objects with compare(x, y) <= 0 for every adjacent pair and the
\* objects that compare equal in their previous order; sort moves no null
\* slot.
C23_SortStable ==
    (listLast.op = "sort" /\ listLast.result) =>
       /\ Len(list.objects) = Len(listLast.before.objects)
       /\ NullSlots(list.objects) = NullSlots(listLast.before.objects)
       /\ NullSlots(listLast.before.objects) = {} =>
             /\ \A i \in 1..(Len(list.objects) - 1) :
                   Compare(list.objects[i], list.objects[i + 1]) <= 0
             /\ \A rank \in Ranks :
                   Ranked(list.objects, rank) = Ranked(listLast.before.objects, rank)

\* three objects were sorted: the one that compares greater went last, the
\* two that compare equal kept their order
C23_Witness ==
    /\ listLast.op = "sort" /\ listLast.result
    /\ listLast.before.objects = <<"a", "c", "b">>
    /\ list.objects = <<"c", "b", "a">>

\* C24: clean() and sort() clear their flags: after clean() dirty is false
\* and after sort() unsorted is false.
C24_FlagsCleared ==
    /\ listLast.op = "clean" => ~list.dirty
    /\ listLast.op = "sort" => ~list.unsorted

\* the components in the live slots of an entity's list
Members(w, e) == Elements(w.components[e]) \ {Null}

\* C25: in every reachable state, after a raising Entity.add too, no entity's
\* component list holds the same component in two live slots.
C25_NoComponentTwice ==
    \A e \in Entities : \A i, j \in 1..Len(world.components[e]) :
       (i # j /\ world.components[e][i] # Null) =>
          world.components[e][i] # world.components[e][j]

\* C26: Entity.add(c) on a component whose entity is set raises, and leaves
\* c.entity as it was and c a live member of its owner's list only.
C26_AddOfOwnedComponentRaises ==
    [][\A e \in Entities, c \in Components :
          ( /\ sceneLast'.op = "Entity.add"
            /\ world.entity[c] # Null
            /\ world' = EntityAdd(world, e, c) ) =>
               /\ world'.threw
               /\ world'.entity[c] = world.entity[c]
               /\ \A other \in Entities :
                     c \in Members(world', other) => other = world.entity[c]]_vars

(***************************************************************************)
(* Scene: the life of an entity                                            *)
(***************************************************************************)
\* C27: over any sequence of Scene.add, Scene.remove, recycle and recreate,
\* a call that adds an entity invokes created() and then added() when the
\* entity was never added before and added() alone otherwise, so created()
\* is invoked once, on the first add and before that add's added(), and
\* added() once for each add; a remove invokes removed() once, a recycle
\* removed() once and then recycled()
C27_CreatedOnceAddedPerAdd ==
    [][LET e == lifeLast'.e
       IN  /\ (lifeLast'.op \in {"add", "recreate"} /\ e # Null) =>
                 stage'.hooks = IF e \in watch.seen
                                THEN <<Hook("added", e)>>
                                ELSE <<Hook("created", e), Hook("added", e)>>
           /\ (lifeLast'.op = "recreate" /\ e = Null) => stage'.hooks = <<>>
           /\ lifeLast'.op = "remove" => stage'.hooks = <<Hook("removed", e)>>
           /\ lifeLast'.op = "recycle" =>
                 stage'.hooks = <<Hook("removed", e), Hook("recycled", e)>>]_vars

\* an entity that was added, recycled and recreated: the second add invoked
\* added() alone
C27_Witness ==
    /\ lifeLast = LifeOp("recreate", "e1")
    /\ stage.hooks = <<Hook("added", "e1")>>
    /\ stage.scene["e1"]

\* C28: in each period an entity is in the scene started() is invoked at
\* most once, update() is invoked in the period only after started() was, the
\* first visit of the period invokes started(), no started() or update() is
\* invoked on an entity that is not in the scene at that moment, and none on
\* an entity that was added during the traversal under way
C28_StartedOncePerPeriod ==
    [][/\ \A e \in Entities : watch'.started[e] <= 1
       /\ \A e \in Entities : watch'.updated[e] => watch'.started[e] = 1
       /\ (lifeLast'.op = "visit" /\ watch.started[lifeLast'.e] = 0) =>
             stage'.hooks = <<Hook("started", lifeLast'.e)>>
       /\ \A e \in Entities :
             (lifeLast'.op \in {"visit", "return"}
                /\ (Hook("started", e) \in Elements(stage'.hooks)
                      \/ Hook("update", e) \in Elements(stage'.hooks))) =>
             (stage.scene[e] /\ ~watch.late[e])]_vars

\* e1 removed itself in started() while e2, added during the traversal, is
\* in the list: started() has returned and update() was not invoked
C28_Witness ==
    /\ lifeLast = LifeOp("return", "e1")
    /\ ~stage.scene["e1"]
    /\ watch.started["e1"] = 1
    /\ stage.hooks = <<>>
    /\ stage.scene["e2"]
    /\ watch.late["e2"]

Rendered(hooks) == [i \in 1..Len(hooks) |-> hooks[i].on]

\* C29: a Scene.render that follows a Scene.update renders the entities in
\* the scene, each once, in non-increasing depth, and entities of equal depth
\* in the order they were added
C29_RenderOrder ==
    [][(lifeLast.op = "updated" /\ lifeLast'.op = "render") =>
         LET r == Rendered(stage'.hooks)
         IN  /\ Elements(r) = {e \in Entities : stage.scene[e]}
             /\ \A i, j \in 1..Len(r) :
                   i < j => /\ r[i] # r[j]
                            /\ stage.depth[r[i]] >= stage.depth[r[j]]
                            /\ stage.depth[r[i]] = stage.depth[r[j]] =>
                                  IndexOf(watch.order, r[i]) < IndexOf(watch.order, r[j])]_vars

(***************************************************************************)
(* Matrix                                                                  *)
(***************************************************************************)
\* the determinant, expanded along the first row
Determinant(m) ==
      m.mat[1] * (m.mat[5] * m.mat[9] - m.mat[6] * m.mat[8])
    - m.mat[2] * (m.mat[4] * m.mat[9] - m.mat[6] * m.mat[7])
    + m.mat[3] * (m.mat[4] * m.mat[8] - m.mat[5] * m.mat[7])

\* C30: invert() on a matrix whose determinant is 0 raises no error and
\* leaves the nine entries as they were
C30_InvertSingularUnchanged ==
    [][(matLast'.op = "invert" /\ Determinant(matrix) = 0) =>
         (matrix' = matrix /\ ~matLast'.raised)]_vars

\* invert() was called on the zero matrix
C30_Witness ==
    /\ matLast.op = "invert"
    /\ matrix = MatrixOf(<<0, 0, 0, 0, 0, 0, 0, 0, 0>>, 1)

(***************************************************************************)
(* Rectangle                                                               *)
(***************************************************************************)
\* C31: after clip.cropRect(r) on a clip of non-negative size, r lies
\* within the clip and has non-negative width and height
C31_CroppedIntoTarget ==
    (rectLast.op = "cropRect" /\ clip.width >= 0 /\ clip.height >= 0) =>
        /\ clip.x <= rect.x
        /\ clip.y <= rect.y
        /\ Right(rect) <= Right(clip)
        /\ Bottom(rect) <= Bottom(clip)
        /\ rect.width >= 0
        /\ rect.height >= 0

\* C32: cropRect applied to its own result, with the same clip, returns
\* the result unchanged
C32_CropRectIdempotent ==
    rectLast.op = "cropRect" => CropRect(clip, rect) = rect

(***************************************************************************)
(* Physics: the number of unit steps                                       *)
(***************************************************************************)
\* C33: with solids configured and round(abs(amount)) free unit steps ahead
\* in the direction sign(amount), moveXAbsolute(amount) and
\* moveYAbsolute(amount) return true and leave the entity exactly that many
\* units further in that direction, the other coordinate as it was
C33_RoundAbsSteps ==
    [][LET a    == physLast'.amount
           want == MathRound(Abs(a))
       IN  /\ (/\ physLast'.op = "moveXAbsolute"
               /\ Len(physics.solids) > 0
               /\ Sweep(Mover, "x", CalcSign(a), want).result) =>
                 /\ physLast'.result
                 /\ entity'.x = entity.x + CalcSign(a) * want
                 /\ entity'.y = entity.y
           /\ (/\ physLast'.op = "moveYAbsolute"
               /\ Len(physics.solids) > 0
               /\ Sweep(Mover, "y", CalcSign(a), want).result) =>
                 /\ physLast'.result
                 /\ entity'.y = entity.y + CalcSign(a) * want
                 /\ entity'.x = entity.x]_vars

(***************************************************************************)
(* ObjectList: what clean keeps                                            *)
(***************************************************************************)
\* C34: clean() leaves the sequence of non-null objects as it was, and
\* moveAfter on an object the list contains, once it has acted, leaves the
\* same live objects, each as many times as before
C34_CleanKeepsLive ==
    [][/\ listLast'.op = "clean" => Live(list'.objects) = Live(list.objects)
       /\ (/\ listLast'.op = "moveAfter"
           /\ \E o \in Objects, index \in MoveIndices :
                 Contains(list, o) /\ list' = MoveAfter(list, o, index)) =>
             \A o \in Objects :
                 Len(SelectSeq(list'.objects, LAMBDA x : x = o))
                   = Len(SelectSeq(list.objects, LAMBDA x : x = o))]_vars

(***************************************************************************)
(* Graphics: the blend mode that is read back                              *)
(***************************************************************************)
\* C35: after a non-null blend mode bm is assigned to Graphics.blendmode the
\* getter returns bm, also when bm is the mode applied while another mode is
\* pending
C35_BlendmodeReadBack ==
    [][\A bm \in BlendModeNames :
         (gfxLast'.op = "assign" /\ graphics' = Begin(SetBlendmode(graphics, bm))) =>
             BlendmodeOf(graphics') = bm]_vars

(***************************************************************************)
(* Entity: the depth that is read back                                     *)
(***************************************************************************)
\* C36: after entity.depth = v the depth getter returns v, whether the
\* entity is in a scene or not, and when it is in a scene and v is another
\* depth than before the scene's entity list is marked unsorted
C36_DepthTakesEffect ==
    [][\A e \in Entities, v \in Depths :
         (/\ lifeLast'.op = "depth"
          /\ lifeLast'.e = e
          /\ stage' = SetDepth(Quiet(stage), e, v)) =>
             /\ stage'.depth[e] = v
             /\ (stage.scene[e] /\ stage.depth[e] # v) => stage'.entities.unsorted]_vars

(***************************************************************************)
(* Physics: an entity removed by a collision callback                      *)
(***************************************************************************)
\* the events of an update that follow the first X callback
AfterLeaving(events) ==
    LET first == CHOOSE i \in 1..Len(events) :
                    /\ events[i].axis = "x"
                    /\ events[i].k \in {"onCollidex", "onCollide"}
                    /\ \A j \in 1..(i - 1) :
                          ~(events[j].axis = "x"
                              /\ events[j].k \in {"onCollidex", "onCollide"})
    IN  SubSeq(events, first + 1, Len(events))

\* C37: a Physics.update in which a callback of the X sweep removed the
\* entity from its scene, with speed.y not zero and solids configured,
\* raises nothing and probes no collider after the removal
C37_UpdateAfterRemoval ==
    (/\ physLast.op = "updateLeaving"
     /\ physLast.left
     /\ physLast.amount[2] # 0
     /\ Len(physics.solids) > 0) =>
        /\ ~physLast.raised
        /\ \A i \in 1..Len(AfterLeaving(physLast.events)) :
              AfterLeaving(physLast.events)[i].k # "probe"

(***************************************************************************)
(* Renderer: the entities of a pass                                        *)
(***************************************************************************)
\* C38: a render pass renders no entity twice, also when the mask names
\* several groups and an entity is in more than one of them
C38_RenderedAtMostOnce ==
    groupLast.op = "render" =>
        \A i, j \in 1..Len(groups.rendered) :
            i # j => groups.rendered[i] # groups.rendered[j]

(***************************************************************************)
(* Engine: scene changes, the step and exit                                *)
(***************************************************************************)
LastCall(calls) == IF calls = <<>> THEN Call(Null, Null) ELSE calls[Len(calls)]

Calls(en, k) == {i \in 1..Len(en.calls) : en.calls[i].k = k}

\* C39: Engine.goto leaves the running scene as it is; the running scene
\* changes only where a step swaps scenes, before any update or render of
\* that step (the step under way when goto is called from ended() or
\* dispose() of the scene being left), and the swap calls begin() of the new scene after ended() of
\* the previous one, and after its dispose() when disposeLastScene is set;
\* update() is only called on the scene whose begin() came last, no update()
\* or render() on a scene whose ended() came after its begin(), and a step
\* whose update returns with a scene pending draws nothing
C39_SceneChangeAtStepStart ==
    [][/\ engineLast' = "goto" => engine'.scene = engine.scene
       /\ engine'.scene # engine.scene =>
             /\ engine.phase \in {"idle", "ended", "dispose"}
             /\ engine'.scene = engine.nextScene
             /\ LastCall(engine'.calls) = Call("begin", engine'.scene)
       /\ (Calls(engine', "begin") # {} /\ engine.scene # Null) =>
             /\ engine.scene \in engineWatch.over
             /\ \/ LastCall(engineWatch.step) = Call("dispose", engine.scene)
                \/ /\ LastCall(engineWatch.step) = Call("ended", engine.scene)
                   /\ ~engine.disposeLastScene
       /\ Calls(engine', "dispose") # {} => engine.scene \in engineWatch.over
       /\ \A i \in Calls(engine', "update") :
             /\ engine'.calls[i].s = engineWatch.running
             /\ engine'.calls[i].s \notin engineWatch.over
       /\ \A i \in Calls(engine', "render") :
             engine'.calls[i].s \notin engineWatch.over
       /\ (engine.phase = "update" /\ engine.nextScene # Null
             /\ engineLast' = "return") =>
             /\ engine'.calls = <<>>
             /\ engine'.phase = "idle"]_vars

\* C39 as stated: moreover a scene whose begin() is called was passed to
\* goto before the step that calls it began
C39_SceneChangeInLaterStep ==
    [][Calls(engine', "begin") # {} => ~engineWatch.fresh]_vars

\* s1 was running when goto(s2, true) was called: the next step has called
\* ended() and dispose() of s1 and is in begin() of s2
C39_Witness ==
    /\ engine.phase = "begin"
    /\ engine.scene = "s2"
    /\ engineWatch.step = <<Call("Graphics.update", Null), Call("ended", "s1"),
                            Call("dispose", "s1"), Call("begin", "s2")>>

\* C40: once Engine.exit() has unloaded the graphics no Graphics.reset,
\* Scene.render or Graphics.finalize is called, no step is requested by a
\* step that ends after the exit, and the graphics are unloaded once
C40_NothingAfterExit ==
    [][/\ \A i \in 1..Len(engine'.calls) :
             engine'.calls[i].k \in {"Graphics.reset", "render", "Graphics.finalize"} =>
                 engineWatch.unloads = 0
       /\ (engine.exiting /\ ~engine.scheduled) => ~engine'.scheduled
       /\ engineWatch'.unloads <= 1]_vars

====
